---- MODULE Spec2Model ----
(***************************************************************************)
(* State-machine model of the rent pallet (pallets/rent/src/lib.rs) and of *)
(* the nft-on-rent pallet (pallets/nft-on-rent/src/lib.rs), each with its  *)
(* own specification: Spec and NftSpec.  ChargeSpec runs the rent pallet   *)
(* with prices beyond 32 bits, EquipSpec with room for two assets in the   *)
(* bounded lists.                                                          *)
(* The storage items and the ledger are the variables.  Every dispatchable *)
(* is a function from the stores to a result and the stores it leaves, and *)
(* one action; the on_initialize hook is the action that starts a block.   *)
(* Option<T> is a sequence of length at most one: None == << >>,           *)
(* Some(x) == <<x>>.                                                       *)
(***************************************************************************)
EXTENDS Integers, Sequences, FiniteSets, TLC

VARIABLES Collectibles, LessorCollectibles, LesseeCollectibles,
          RentableCollectibles, PendingRentals, AccountEquips,
          balances, block_number, status, halted_in,
          MaximumOwned, MaximumRentablesPerBlock,
          nft

vars == <<Collectibles, LessorCollectibles, LesseeCollectibles,
          RentableCollectibles, PendingRentals, AccountEquips,
          balances, block_number, status, halted_in,
          MaximumOwned, MaximumRentablesPerBlock,
          nft>>

(* The runtime's Config constants: fixed when the runtime is built *)
config == <<MaximumOwned, MaximumRentablesPerBlock>>

(* The stores as one value: what a dispatchable reads and what it leaves *)
stores == [Collectibles |-> Collectibles,
           LessorCollectibles |-> LessorCollectibles,
           LesseeCollectibles |-> LesseeCollectibles,
           RentableCollectibles |-> RentableCollectibles,
           PendingRentals |-> PendingRentals,
           AccountEquips |-> AccountEquips,
           balances |-> balances]

(* ------------------------------ bounds --------------------------------- *)
NumAccounts == 2
NumCollectibles == 2
MaxBlock == 2
MaxPeriod == 1
MaxPrice == 1
InitialBalance == 2
ExistentialDeposit == 1
MaxOwned == 1
MaxRentablesPerBlock == 2
(* u32::MAX at the scale of the model (TLC integers are 32-bit signed) *)
U32Max == 15
(* nft-on-rent: what every account holds at genesis *)
NftInitialBalance == 3

AccountId == 1..NumAccounts
(* The signed origins: the accounts above and one more account, which holds *)
(* nothing.                                                                 *)
Callers == 1..(NumAccounts + 1)
CollectibleId == 1..NumCollectibles
MaxTick == MaxBlock + MaxPeriod
BlockNumber == 0..MaxTick
Prices == 1..MaxPrice
Periods == 0..MaxPeriod
MinimumPeriods == {0, 1}
MaximumPeriods == {0, MaxTick}

(* ------------------------------ Option --------------------------------- *)
None == << >>
Some(x) == <<x>>
is_some(o) == o # << >>
is_none(o) == o = << >>
unwrap(o) == o[1]

(* Vec::retain(|x| x != v) *)
retain_ne(s, v) == SelectSeq(s, LAMBDA x : x # v)

(* do_extend_rent without the removal of the old entry: the list is kept    *)
(* whole.                                                                   *)
retain_all(s, v) == s

(* Vec::retain(|(id, _)| *id != v) on a list of (collectible, lessee) pairs *)
retain_id_ne(s, v) == SelectSeq(s, LAMBDA rental : rental[1] # v)

(* --------------------------- helper functions -------------------------- *)

(* fetch_collectible: Collectibles::try_get; None stands for the error      *)
(* NoCollectible.                                                           *)
fetch_collectible(st, collectible_id) == st.Collectibles[collectible_id]

(* What a dispatchable returns: its result ("Ok", an Error<T> variant,      *)
(* "Panic" for a failed unwrap, "Hang" for a loop that never exits), the    *)
(* stores as it had written them when it returned (written) and the stores  *)
(* it leaves (st).  #[pallet::call] runs every dispatchable in a storage    *)
(* layer: when it returns Err, whatever it wrote is rolled back; a panic or *)
(* a hang commits nothing either.                                           *)
ErrAfter(st, written, e) == [result |-> e, st |-> st, written |-> written]
Err(st, e) == ErrAfter(st, st, e)
Ok(st) == [result |-> "Ok", st |-> st, written |-> st]

(* ensure_user_is_lessee: "Ok", "NoLessee" or "NotLessee" *)
ensure_user_is_lessee(user, collectible) ==
    IF is_none(collectible.lessee) THEN "NoLessee"
    ELSE IF unwrap(collectible.lessee) # user THEN "NotLessee"
    ELSE "Ok"

(* ensure_user_is_lessor: "Ok" or "NotLessor" *)
ensure_user_is_lessor(user, collectible) ==
    IF collectible.lessor # user THEN "NotLessor" ELSE "Ok"

(* Currency::transfer without the KeepAlive requirement. *)
currency_transfer_allow_death(bal, from, amount) == TRUE

(* T::Currency::transfer(from, to, amount, KeepAlive): the ledger move.     *)
(* A zero amount always succeeds; otherwise the sender must keep at least   *)
(* the existential deposit.                                                 *)
currency_transfer_ok(bal, from, amount) ==
    amount = 0 \/ bal[from] - amount >= ExistentialDeposit

(* transfer_funds without the balance check and without the KeepAlive      *)
(* requirement: the amount always moves.                                    *)
transfer_funds_unchecked(bal, from, to, amount) ==
    [ok |-> TRUE, err |-> "Ok",
     balances |-> [bal EXCEPT ![from] = @ - amount, ![to] = @ + amount]]

(* transfer_funds: [ok, balances] *)
transfer_funds(bal, from, to, amount) ==
    IF ~(bal[from] >= amount) THEN [ok |-> FALSE, err |-> "NotEnoughBalance", balances |-> bal]
    ELSE IF ~currency_transfer_ok(bal, from, amount)
         THEN [ok |-> FALSE, err |-> "KeepAlive", balances |-> bal]
    ELSE [ok |-> TRUE, err |-> "Ok",
          balances |-> [bal EXCEPT ![from] = @ - amount, ![to] = @ + amount]]

(* unequip_collectible_from_account that leaves the list as it is.          *)
unequip_nothing(equips, account, collectible_id) == equips

(* unequip_collectible_from_account on a value of AccountEquips *)
unequip_collectible_from_account(equips, account, collectible_id) ==
    [equips EXCEPT ![account] = retain_ne(@, collectible_id)]

(* A retry that probes the current block, not the one after it. *)
retry_at_now(now, failed_block) == now

(* The block the retry loop of append_pending_rental_to_available_block     *)
(* probes after a failed try_append on failed_block: block_number() + 1,    *)
(* whatever block failed.                                                   *)
retry_block(now, failed_block) == now + 1

(* The while loop of append_pending_rental_to_available_block: try_append   *)
(* on the bucket of block; on failure read the bucket of the retry block.   *)
(* When the retry block is the block that just failed the loop reads the    *)
(* same full bucket for ever: done = FALSE.                                 *)
RECURSIVE try_append_loop(_, _, _, _)
try_append_loop(pending, now, block, entry) ==
    IF Len(pending[block]) < MaximumRentablesPerBlock
    THEN [done |-> TRUE, block |-> block,
          pending |-> [pending EXCEPT ![block] = Append(@, entry)]]
    ELSE IF retry_block(now, block) = block
         THEN [done |-> FALSE, block |-> block, pending |-> pending]
         ELSE try_append_loop(pending, now, retry_block(now, block), entry)

(* append_pending_rental_to_available_block that forgets the period: the    *)
(* first candidate is the starting block itself.                            *)
append_ignoring_period(pending, now, starting, additional, collectible_id, lessee) ==
    try_append_loop(pending, now, IF is_some(starting) THEN unwrap(starting) ELSE now,
                    <<collectible_id, lessee>>)

(* append_pending_rental_to_available_block that stores the new entry      *)
(* alone in the bucket it found room in, dropping what the bucket held.     *)
append_replacing_bucket(pending, now, starting, additional, collectible_id, lessee) ==
    LET starting_block_number == IF is_some(starting) THEN unwrap(starting) ELSE now
        found == try_append_loop(pending, now, starting_block_number + additional,
                                 <<collectible_id, lessee>>)
    IN  IF ~found.done THEN found
        ELSE [found EXCEPT !.pending =
                 [pending EXCEPT ![found.block] = <<<<collectible_id, lessee>>>>]]

(* append_pending_rental_to_available_block.                                *)
(* starting is an Option<BlockNumber>; now is frame_system block_number().  *)
append_pending_rental_to_available_block(pending, now, starting, additional, collectible_id, lessee) ==
    LET starting_block_number == IF is_some(starting) THEN unwrap(starting) ELSE now
    IN  try_append_loop(pending, now, starting_block_number + additional,
                        <<collectible_id, lessee>>)

(* remove_lessee_from_collectible without LesseeCollectibles::remove: the   *)
(* lessee field is cleared and the agreement is left behind.                *)
remove_lessee_keep_agreement(st, lessee, collectible) ==
    [st EXCEPT
        !.Collectibles = [@ EXCEPT ![collectible.collectible_id] =
                              Some([collectible EXCEPT !.lessee = None])],
        !.AccountEquips = unequip_collectible_from_account(@, lessee, collectible.collectible_id)]

(* remove_lessee_from_collectible, on the stores the sweep threads along *)
remove_lessee_from_collectible(st, lessee, collectible) ==
    [st EXCEPT
        !.LesseeCollectibles = [@ EXCEPT ![<<lessee, collectible.collectible_id>>] = None],
        !.Collectibles = [@ EXCEPT ![collectible.collectible_id] =
                              Some([collectible EXCEPT !.lessee = None])],
        !.AccountEquips = unequip_collectible_from_account(@, lessee, collectible.collectible_id)]

(* ---------------------------- dispatchables ---------------------------- *)

(* do_mint without the contains_key test: an existing asset is replaced. *)
mint_overwriting(st, sender, collectible_id) ==
    LET collectible == [collectible_id |-> collectible_id,
                        price_per_block |-> None,
                        lessor |-> sender,
                        lessee |-> None,
                        rentable |-> FALSE,
                        minimum_rental_period |-> None,
                        maximum_rental_period |-> None]
    IN  IF ~(Len(st.LessorCollectibles[sender]) < MaximumOwned)
        THEN ErrAfter(st, [st EXCEPT !.Collectibles =
                                 [@ EXCEPT ![collectible_id] = Some(collectible)]],
                      "TooManyCollectiblesOwned")
        ELSE Ok([st EXCEPT
                    !.Collectibles = [@ EXCEPT ![collectible_id] = Some(collectible)],
                    !.LessorCollectibles = [@ EXCEPT ![sender] = Append(@, collectible_id)]])

(* mint + do_mint; collectible_id is what gen_collectible_id() hashed to *)
mint(st, sender, collectible_id) ==
    LET collectible == [collectible_id |-> collectible_id,
                        price_per_block |-> None,
                        lessor |-> sender,
                        lessee |-> None,
                        rentable |-> FALSE,
                        minimum_rental_period |-> None,
                        maximum_rental_period |-> None]
    IN  IF is_some(st.Collectibles[collectible_id]) THEN Err(st, "DuplicateCollectible")
        ELSE IF ~(Len(st.LessorCollectibles[sender]) < MaximumOwned)
        THEN ErrAfter(st, [st EXCEPT !.Collectibles =
                                 [@ EXCEPT ![collectible_id] = Some(collectible)]],
                      "TooManyCollectiblesOwned")
        ELSE Ok([st EXCEPT
                    !.Collectibles = [@ EXCEPT ![collectible_id] = Some(collectible)],
                    !.LessorCollectibles = [@ EXCEPT ![sender] = Append(@, collectible_id)]])

(* burn that leaves the equipped list of the lessor as it is. *)
burn_keeping_equipped(st, sender, collectible_id) ==
    LET fetched == fetch_collectible(st, collectible_id)
        collectible == unwrap(fetched)
    IN  IF is_none(fetched) THEN Err(st, "NoCollectible")
        ELSE IF ensure_user_is_lessor(sender, collectible) # "Ok" THEN Err(st, "NotLessor")
        ELSE IF ~(collectible.lessee = None) THEN Err(st, "NotAllowedWhileRented")
        ELSE Ok([st EXCEPT
                    !.Collectibles = [@ EXCEPT ![collectible_id] = None],
                    !.LessorCollectibles = [@ EXCEPT ![sender] = retain_ne(@, collectible_id)]])

burn(st, sender, collectible_id) ==
    LET fetched == fetch_collectible(st, collectible_id)
        collectible == unwrap(fetched)
    IN  IF is_none(fetched) THEN Err(st, "NoCollectible")
        ELSE IF ensure_user_is_lessor(sender, collectible) # "Ok" THEN Err(st, "NotLessor")
        ELSE IF ~(collectible.lessee = None) THEN Err(st, "NotAllowedWhileRented")
        ELSE Ok([st EXCEPT
                    !.Collectibles = [@ EXCEPT ![collectible_id] = None],
                    !.LessorCollectibles = [@ EXCEPT ![sender] = retain_ne(@, collectible_id)],
                    !.AccountEquips =
                        unequip_collectible_from_account(@, sender, collectible_id)])

(* set_rentable that leaves the equipped list of the lessor as it is. *)
set_rentable_keeping_equipped(st, sender, collectible_id, price_per_block, minimum_rental_period, maximum_rental_period) ==
    LET fetched == fetch_collectible(st, collectible_id)
        collectible == unwrap(fetched)
        updated == [collectible EXCEPT
                       !.price_per_block = Some(price_per_block),
                       !.rentable = TRUE,
                       !.minimum_rental_period = Some(minimum_rental_period),
                       !.maximum_rental_period = Some(maximum_rental_period)]
        inserted == [st EXCEPT !.Collectibles = [@ EXCEPT ![collectible_id] = Some(updated)]]
    IN  IF is_none(fetched) THEN Err(st, "NoCollectible")
        ELSE IF ensure_user_is_lessor(sender, collectible) # "Ok" THEN Err(st, "NotLessor")
        ELSE IF ~(minimum_rental_period <= maximum_rental_period)
        THEN Err(st, "MinimumMustBeLessThanMaximum")
        ELSE IF ~(collectible.lessee = None) THEN Err(st, "NotAllowedWhileRented")
        ELSE IF ~(Len(st.RentableCollectibles) < MaximumOwned)
        THEN ErrAfter(st, inserted, "TooManyCollectibles")
        ELSE Ok([inserted EXCEPT !.RentableCollectibles = Append(@, collectible_id)])

(* set_rentable that does not refuse an asset that is rented.               *)
set_rentable_while_rented(st, sender, collectible_id, price_per_block, minimum_rental_period, maximum_rental_period) ==
    LET fetched == fetch_collectible(st, collectible_id)
        collectible == unwrap(fetched)
        updated == [collectible EXCEPT
                       !.price_per_block = Some(price_per_block),
                       !.rentable = TRUE,
                       !.minimum_rental_period = Some(minimum_rental_period),
                       !.maximum_rental_period = Some(maximum_rental_period)]
        inserted == [st EXCEPT !.Collectibles = [@ EXCEPT ![collectible_id] = Some(updated)]]
    IN  IF is_none(fetched) THEN Err(st, "NoCollectible")
        ELSE IF ensure_user_is_lessor(sender, collectible) # "Ok" THEN Err(st, "NotLessor")
        ELSE IF ~(minimum_rental_period <= maximum_rental_period)
        THEN Err(st, "MinimumMustBeLessThanMaximum")
        ELSE IF ~(Len(st.RentableCollectibles) < MaximumOwned)
        THEN ErrAfter(st, inserted, "TooManyCollectibles")
        ELSE Ok([inserted EXCEPT
                    !.RentableCollectibles = Append(@, collectible_id),
                    !.AccountEquips =
                        unequip_collectible_from_account(@, sender, collectible_id)])

set_rentable(st, sender, collectible_id, price_per_block, minimum_rental_period, maximum_rental_period) ==
    LET fetched == fetch_collectible(st, collectible_id)
        collectible == unwrap(fetched)
        updated == [collectible EXCEPT
                       !.price_per_block = Some(price_per_block),
                       !.rentable = TRUE,
                       !.minimum_rental_period = Some(minimum_rental_period),
                       !.maximum_rental_period = Some(maximum_rental_period)]
        inserted == [st EXCEPT !.Collectibles = [@ EXCEPT ![collectible_id] = Some(updated)]]
    IN  IF is_none(fetched) THEN Err(st, "NoCollectible")
        ELSE IF ensure_user_is_lessor(sender, collectible) # "Ok" THEN Err(st, "NotLessor")
        ELSE IF ~(minimum_rental_period <= maximum_rental_period)
        THEN Err(st, "MinimumMustBeLessThanMaximum")
        ELSE IF ~(collectible.lessee = None) THEN Err(st, "NotAllowedWhileRented")
        ELSE IF ~(Len(st.RentableCollectibles) < MaximumOwned)
        THEN ErrAfter(st, inserted, "TooManyCollectibles")
        ELSE Ok([inserted EXCEPT
                    !.RentableCollectibles = Append(@, collectible_id),
                    !.AccountEquips =
                        unequip_collectible_from_account(@, sender, collectible_id)])

(* set_unrentable that ends a running rental at once. *)
set_unrentable_evicting(st, sender, collectible_id) ==
    LET fetched == fetch_collectible(st, collectible_id)
        collectible == unwrap(fetched)
        cleared == [collectible EXCEPT !.rentable = FALSE]
        unlisted == [st EXCEPT !.RentableCollectibles = retain_ne(@, collectible_id)]
    IN  IF is_none(fetched) THEN Err(st, "NoCollectible")
        ELSE IF ensure_user_is_lessor(sender, collectible) # "Ok" THEN Err(st, "NotLessor")
        ELSE IF is_some(collectible.lessee)
        THEN Ok(remove_lessee_from_collectible(unlisted, unwrap(collectible.lessee), cleared))
        ELSE Ok([unlisted EXCEPT !.Collectibles[collectible_id] = Some(cleared)])

(* set_unrentable that takes the price back as well. *)
set_unrentable_clearing_price(st, sender, collectible_id) ==
    LET fetched == fetch_collectible(st, collectible_id)
        collectible == unwrap(fetched)
    IN  IF is_none(fetched) THEN Err(st, "NoCollectible")
        ELSE IF ensure_user_is_lessor(sender, collectible) # "Ok" THEN Err(st, "NotLessor")
        ELSE Ok([st EXCEPT
                    !.Collectibles = [@ EXCEPT ![collectible_id] =
                        Some([collectible EXCEPT !.rentable = FALSE,
                                                 !.price_per_block = None])],
                    !.RentableCollectibles = retain_ne(@, collectible_id)])

set_unrentable(st, sender, collectible_id) ==
    LET fetched == fetch_collectible(st, collectible_id)
        collectible == unwrap(fetched)
    IN  IF is_none(fetched) THEN Err(st, "NoCollectible")
        ELSE IF ensure_user_is_lessor(sender, collectible) # "Ok" THEN Err(st, "NotLessor")
        ELSE Ok([st EXCEPT
                    !.Collectibles = [@ EXCEPT ![collectible_id] =
                        Some([collectible EXCEPT !.rentable = FALSE])],
                    !.RentableCollectibles = retain_ne(@, collectible_id)])

(* rent's checks without the comparison of the caller with the lessor.     *)
rent_checks_without_lessor(sender, collectible, blocks) ==
    IF is_some(collectible.minimum_rental_period)
       /\ ~(blocks >= unwrap(collectible.minimum_rental_period))
    THEN "RentalPeriodTooShort"
    ELSE IF is_some(collectible.maximum_rental_period)
            /\ ~(blocks <= unwrap(collectible.maximum_rental_period))
    THEN "RentalPeriodTooLong"
    ELSE IF ~is_none(collectible.lessee) THEN "RentNotAvailable"
    ELSE "Ok"

(* The ensure!s of rent, in order: "Ok" or the error of the first to fail *)
rent_checks(sender, collectible, blocks) ==
    IF is_some(collectible.minimum_rental_period)
       /\ ~(blocks >= unwrap(collectible.minimum_rental_period))
    THEN "RentalPeriodTooShort"
    ELSE IF is_some(collectible.maximum_rental_period)
            /\ ~(blocks <= unwrap(collectible.maximum_rental_period))
    THEN "RentalPeriodTooLong"
    ELSE IF ~(collectible.lessor # sender) THEN "CannotRentOwnCollectible"
    ELSE IF ~is_none(collectible.lessee) THEN "RentNotAvailable"
    ELSE IF ~(collectible.lessee # Some(sender)) THEN "AlreadyRented"
    ELSE "Ok"

(* do_rent_collectible at block now *)
do_rent_collectible(st, now, collectible_id, lessee, rent_periodic_interval, recurring) ==
    LET collectible == unwrap(fetch_collectible(st, collectible_id))
        lessor == collectible.lessor
        total_rent_price == unwrap(collectible.price_per_block) * rent_periodic_interval
        paid == transfer_funds(st.balances, lessee, lessor, total_rent_price)
        appended == append_pending_rental_to_available_block(
                        st.PendingRentals, now, None,
                        rent_periodic_interval, collectible_id, lessee)
        rental_config == [rental_periodic_interval |-> rent_periodic_interval,
                          next_rent_block |-> appended.block,
                          recurring |-> recurring]
    IN  IF is_none(collectible.price_per_block) THEN Err(st, "Panic")
        ELSE IF ~paid.ok THEN Err(st, paid.err)
        ELSE IF ~appended.done
        THEN ErrAfter(st, [st EXCEPT !.balances = paid.balances], "Hang")
        ELSE Ok([st EXCEPT
                    !.balances = paid.balances,
                    !.PendingRentals = appended.pending,
                    !.LesseeCollectibles =
                        [@ EXCEPT ![<<lessee, collectible_id>>] = Some(rental_config)],
                    !.Collectibles = [@ EXCEPT ![collectible_id] =
                        Some([collectible EXCEPT !.lessee = Some(lessee)])]])

rent(st, now, sender, collectible_id, blocks, recurring) ==
    LET fetched == fetch_collectible(st, collectible_id)
        collectible == unwrap(fetched)
    IN  IF is_none(fetched) THEN Err(st, "NoCollectible")
        ELSE IF rent_checks(sender, collectible, blocks) # "Ok"
        THEN Err(st, rent_checks(sender, collectible, blocks))
        ELSE do_rent_collectible(st, now, collectible_id, sender, blocks, recurring)

(* set_recurring that checks the caller and then stores nothing.            *)
set_recurring_without_write(st, sender, collectible_id, recurring) ==
    LET fetched == fetch_collectible(st, collectible_id)
    IN  IF is_none(fetched) THEN Err(st, "NoCollectible")
        ELSE IF ensure_user_is_lessee(sender, unwrap(fetched)) # "Ok"
        THEN Err(st, ensure_user_is_lessee(sender, unwrap(fetched)))
        ELSE Ok(st)

(* set_recurring that does not check who the caller is.                     *)
set_recurring_by_anyone(st, sender, collectible_id, recurring) ==
    LET fetched == fetch_collectible(st, collectible_id)
        lessee_rental == st.LesseeCollectibles[<<sender, collectible_id>>]
    IN  IF is_none(fetched) THEN Err(st, "NoCollectible")
        ELSE IF ~is_some(lessee_rental) THEN Err(st, "NoCollectible")
        ELSE Ok([st EXCEPT
                    !.LesseeCollectibles = [@ EXCEPT ![<<sender, collectible_id>>] =
                        Some([unwrap(lessee_rental) EXCEPT !.recurring = recurring])]])

set_recurring(st, sender, collectible_id, recurring) ==
    LET fetched == fetch_collectible(st, collectible_id)
        collectible == unwrap(fetched)
        lessee_rental == st.LesseeCollectibles[<<sender, collectible_id>>]
    IN  IF is_none(fetched) THEN Err(st, "NoCollectible")
        ELSE IF ensure_user_is_lessee(sender, collectible) # "Ok"
        THEN Err(st, ensure_user_is_lessee(sender, collectible))
        ELSE IF ~is_some(lessee_rental) THEN Err(st, "NoCollectible")
        ELSE Ok([st EXCEPT
                    !.LesseeCollectibles = [@ EXCEPT ![<<sender, collectible_id>>] =
                        Some([unwrap(lessee_rental) EXCEPT !.recurring = recurring])],
                    !.Collectibles = [@ EXCEPT ![collectible_id] = Some(collectible)]])

(* convert_to_primitive::<_, u32>: TryInto<u32>, None when out of range *)
convert_to_primitive(value) == IF value <= U32Max THEN Some(value) ELSE None

(* do_extend_rent at block now.  checked tells whether the build panics on  *)
(* u32 multiplication overflow (TRUE) or wraps (FALSE).                     *)
do_extend_rent(st, now, collectible, blocks, checked) ==
    LET lessee == unwrap(collectible.lessee)
        found == st.LesseeCollectibles[<<lessee, collectible.collectible_id>>]
        lessee_rental == unwrap(found)
        blocks32 == convert_to_primitive(blocks)
        price32 == convert_to_primitive(unwrap(collectible.price_per_block))
        product == unwrap(blocks32) * unwrap(price32)
        total_rent_price == product % (U32Max + 1)
        paid == transfer_funds(st.balances, lessee, collectible.lessor, total_rent_price)
        next_rent_block == lessee_rental.next_rent_block
        pending_rental == [st.PendingRentals EXCEPT ![next_rent_block] =
                               retain_id_ne(@, collectible.collectible_id)]
        appended == append_pending_rental_to_available_block(
                        pending_rental, now, Some(next_rent_block),
                        unwrap(blocks32), collectible.collectible_id, lessee)
    IN  IF is_none(found) THEN Err(st, "NoCollectible")
        ELSE IF is_none(collectible.maximum_rental_period) THEN Err(st, "Panic")
        ELSE IF ~(blocks + lessee_rental.next_rent_block <=
                    unwrap(collectible.maximum_rental_period))
        THEN Err(st, "RentalPeriodTooLong")
        ELSE IF is_none(blocks32) \/ is_none(collectible.price_per_block)
        THEN Err(st, "Panic")
        ELSE IF is_none(price32) THEN Err(st, "Panic")
        ELSE IF product > U32Max /\ checked THEN Err(st, "Panic")
        ELSE IF ~paid.ok THEN Err(st, paid.err)
        ELSE IF ~appended.done
        THEN ErrAfter(st, [st EXCEPT !.balances = paid.balances,
                                     !.PendingRentals = pending_rental], "Hang")
        ELSE Ok([st EXCEPT
                    !.balances = paid.balances,
                    !.PendingRentals = appended.pending,
                    !.LesseeCollectibles =
                        [@ EXCEPT ![<<lessee, collectible.collectible_id>>] =
                            Some([lessee_rental EXCEPT !.next_rent_block = appended.block])]])

(* extend_rent that holds the extension alone, not the new due block,      *)
(* against maximum_rental_period.                                           *)
extend_rent_relative_limit(st, now, sender, collectible_id, blocks, checked) ==
    LET fetched == fetch_collectible(st, collectible_id)
        collectible == unwrap(fetched)
    IN  IF is_none(fetched) THEN Err(st, "NoCollectible")
        ELSE IF ensure_user_is_lessee(sender, collectible) # "Ok"
        THEN Err(st, ensure_user_is_lessee(sender, collectible))
        ELSE IF is_some(collectible.maximum_rental_period)
                /\ blocks > unwrap(collectible.maximum_rental_period)
        THEN Err(st, "RentalPeriodTooLong")
        ELSE do_extend_rent(st, now,
                            [collectible EXCEPT !.maximum_rental_period = Some(2 * MaxTick)],
                            blocks, checked)

extend_rent(st, now, sender, collectible_id, blocks, checked) ==
    LET fetched == fetch_collectible(st, collectible_id)
        collectible == unwrap(fetched)
    IN  IF is_none(fetched) THEN Err(st, "NoCollectible")
        ELSE IF ensure_user_is_lessee(sender, collectible) # "Ok"
        THEN Err(st, ensure_user_is_lessee(sender, collectible))
        ELSE do_extend_rent(st, now, collectible, blocks, checked)

(* equip_collectible that does not compare the caller with the lessee: any  *)
(* account but the lessor equips a rented asset on behalf of its lessee.    *)
equip_collectible_for_lessee(st, sender, collectible_id) ==
    LET fetched == fetch_collectible(st, collectible_id)
        collectible == unwrap(fetched)
        as_lessor == ensure_user_is_lessor(sender, collectible) = "Ok"
        account == IF as_lessor THEN collectible.lessor ELSE unwrap(collectible.lessee)
    IN  IF is_none(fetched) THEN Err(st, "NoCollectible")
        ELSE IF as_lessor /\ ~(~collectible.rentable) THEN Err(st, "NotAllowedWhileRented")
        ELSE IF ~as_lessor /\ is_none(collectible.lessee)
        THEN Err(st, "NoAccountFoundForCollectible")
        ELSE IF ~(Len(st.AccountEquips[account]) < MaximumOwned)
        THEN Err(st, "TooManyCollectiblesEquiped")
        ELSE Ok([st EXCEPT !.AccountEquips = [@ EXCEPT ![account] = Append(@, collectible_id)]])

equip_collectible(st, sender, collectible_id) ==
    LET fetched == fetch_collectible(st, collectible_id)
        collectible == unwrap(fetched)
        as_lessor == ensure_user_is_lessor(sender, collectible) = "Ok"
        account == IF as_lessor THEN collectible.lessor ELSE unwrap(collectible.lessee)
    IN  IF is_none(fetched) THEN Err(st, "NoCollectible")
        ELSE IF as_lessor /\ ~(~collectible.rentable) THEN Err(st, "NotAllowedWhileRented")
        ELSE IF ~as_lessor /\ is_none(collectible.lessee)
        THEN Err(st, "NoAccountFoundForCollectible")
        ELSE IF ~as_lessor /\ ensure_user_is_lessee(sender, collectible) # "Ok"
        THEN Err(st, ensure_user_is_lessee(sender, collectible))
        ELSE IF ~(Len(st.AccountEquips[account]) < MaximumOwned)
        THEN Err(st, "TooManyCollectiblesEquiped")
        ELSE Ok([st EXCEPT !.AccountEquips = [@ EXCEPT ![account] = Append(@, collectible_id)]])

(* unequip_collectible that needs the asset to be in the list: absent, the  *)
(* call is refused.                                                         *)
unequip_collectible_if_equipped(st, sender, collectible_id) ==
    LET fetched == fetch_collectible(st, collectible_id)
        collectible == unwrap(fetched)
    IN  IF is_none(fetched) THEN Err(st, "NoCollectible")
        ELSE IF ensure_user_is_lessee(sender, collectible) # "Ok"
                /\ ensure_user_is_lessor(sender, collectible) # "Ok"
        THEN Err(st, "NotLessor")
        ELSE IF \A k \in DOMAIN st.AccountEquips[sender] :
                    st.AccountEquips[sender][k] # collectible_id
        THEN Err(st, "NoCollectible")
        ELSE Ok([st EXCEPT !.AccountEquips =
                    unequip_collectible_from_account(@, sender, collectible_id)])

unequip_collectible(st, sender, collectible_id) ==
    LET fetched == fetch_collectible(st, collectible_id)
        collectible == unwrap(fetched)
    IN  IF is_none(fetched) THEN Err(st, "NoCollectible")
        ELSE IF ensure_user_is_lessee(sender, collectible) # "Ok"
                /\ ensure_user_is_lessor(sender, collectible) # "Ok"
        THEN Err(st, "NotLessor")
        ELSE Ok([st EXCEPT !.AccountEquips =
                    unequip_collectible_from_account(@, sender, collectible_id)])

(* ------------------------------ the sweep ------------------------------ *)

(* One iteration of the for loop of do_process_rental_periods(n), on the    *)
(* run r = [result, st, events] the loop threads along.  r.result is "Ok"   *)
(* while the loop runs, "Panic" when an unwrap failed, "Hang" when the      *)
(* insertion never returned.                                                *)
process_rental(r, n, rental) ==
    LET st == r.st
        collectible_id == rental[1]
        lessee == rental[2]
        found == st.LesseeCollectibles[<<lessee, collectible_id>>]
        fetched == st.Collectibles[collectible_id]
        rental_config == unwrap(found)
        collectible == unwrap(fetched)
        total_rent_price ==
            unwrap(collectible.price_per_block) * rental_config.rental_periodic_interval
        paid == transfer_funds(st.balances, lessee, collectible.lessor, total_rent_price)
        payed == [st EXCEPT !.balances = paid.balances]
        appended == append_pending_rental_to_available_block(
                        st.PendingRentals, n, None,
                        rental_config.rental_periodic_interval, collectible_id, lessee)
    IN  IF r.result # "Ok" THEN r
        ELSE IF is_none(found) \/ is_none(fetched) THEN [r EXCEPT !.result = "Panic"]
        ELSE IF ~collectible.rentable \/ None = collectible.lessee \/ ~rental_config.recurring
        THEN [r EXCEPT !.st = remove_lessee_from_collectible(st, lessee, collectible),
                       !.events = Append(@, <<"RentalEnded", collectible_id, lessee>>)]
        ELSE IF is_none(collectible.price_per_block) THEN [r EXCEPT !.result = "Panic"]
        ELSE IF ~paid.ok
        THEN [r EXCEPT !.st = remove_lessee_from_collectible(st, lessee, collectible),
                       !.events = Append(@, <<"ErrorTransferingRent", collectible_id, lessee>>)]
        ELSE IF rental_config.recurring
        THEN IF ~appended.done THEN [r EXCEPT !.result = "Hang", !.st = payed]
             ELSE [r EXCEPT
                      !.st = [payed EXCEPT
                          !.PendingRentals = appended.pending,
                          !.LesseeCollectibles = [@ EXCEPT ![<<lessee, collectible_id>>] =
                              Some([rental_config EXCEPT
                                       !.next_rent_block = appended.block])]],
                      !.events = Append(@, <<"RentPayed", collectible_id, lessee>>)]
        ELSE [r EXCEPT !.st = payed,
                       !.events = Append(@, <<"RentPayed", collectible_id, lessee>>)]

RECURSIVE process_rentals(_, _, _)
process_rentals(r, n, rentals) ==
    IF rentals = << >> THEN r
    ELSE process_rentals(process_rental(r, n, Head(rentals)), n, Tail(rentals))

(* do_process_rental_periods(n): the loop over the bucket read at entry,    *)
(* then PendingRentals::remove(n).  A sweep that panics or hangs produces   *)
(* no block: nothing it wrote (written) is committed.                       *)
do_process_rental_periods(st, n) ==
    LET r == process_rentals([result |-> "Ok", st |-> st, events |-> << >>],
                             n, st.PendingRentals[n])
        removed == [r.st EXCEPT !.PendingRentals[n] = << >>]
    IN  IF r.result # "Ok"
        THEN [result |-> r.result, st |-> st, written |-> r.st, events |-> r.events]
        ELSE [result |-> "Ok", st |-> removed, written |-> removed, events |-> r.events]

(* ------------------------------- Init ---------------------------------- *)
(* The runtime of the nft-on-rent pallet after ExtBuilder::build: its       *)
(* storage items are empty, the accounts are funded, the block is 1.  The   *)
(* variable nft holds that runtime: the four storage items, the ledger, the *)
(* block number and how the execution stands.                               *)
NftGenesis ==
    [CollectibleMap |-> [c \in CollectibleId |-> None],
     LesseeCollectiblesDoubleMap |-> [k \in AccountId \X CollectibleId |-> None],
     PendingRentals |-> [b \in BlockNumber |-> << >>],
     AccountEquipsMap |-> [a \in AccountId |-> << >>],
     balances |-> [a \in AccountId |-> NftInitialBalance],
     block_number |-> 1,
     status |-> "Ok"]

(* ExtBuilder::build: empty pallet storage, funded accounts, block 1; the   *)
(* runtime fixes MaximumOwned and MaximumRentablesPerBlock.                 *)
Init ==
    /\ MaximumOwned \in 1..MaxOwned
    /\ MaximumRentablesPerBlock \in 1..MaxRentablesPerBlock
    /\ Collectibles = [c \in CollectibleId |-> None]
    /\ LessorCollectibles = [a \in AccountId |-> << >>]
    /\ LesseeCollectibles = [k \in AccountId \X CollectibleId |-> None]
    /\ RentableCollectibles = << >>
    /\ PendingRentals = [b \in BlockNumber |-> << >>]
    /\ AccountEquips = [a \in AccountId |-> << >>]
    /\ balances = [a \in AccountId |-> InitialBalance]
    /\ block_number = 1
    /\ status = "Ok"
    /\ halted_in = "none"
    /\ nft = NftGenesis

(* ------------------------------ actions -------------------------------- *)
(* A panic or a loop that never exits ends the execution. *)
Halted == status \in {"Panic", "Hang"}

(* The step of operation op that returned r: a returned error leaves every  *)
(* variable as it was; a panic or a hang stops the chain, and status and    *)
(* halted_in record how and in which operation.                             *)
Commit(op, r) ==
    /\ ~Halted
    /\ IF r.result \in {"Panic", "Hang"}
       THEN /\ status' = r.result
            /\ halted_in' = op
            /\ UNCHANGED <<Collectibles, LessorCollectibles, LesseeCollectibles,
                           RentableCollectibles, PendingRentals, AccountEquips, balances>>
       ELSE IF r.result # "Ok"
       THEN UNCHANGED <<Collectibles, LessorCollectibles, LesseeCollectibles,
                        RentableCollectibles, PendingRentals, AccountEquips, balances,
                        status, halted_in>>
       ELSE /\ Collectibles' = r.st.Collectibles
            /\ LessorCollectibles' = r.st.LessorCollectibles
            /\ LesseeCollectibles' = r.st.LesseeCollectibles
            /\ RentableCollectibles' = r.st.RentableCollectibles
            /\ PendingRentals' = r.st.PendingRentals
            /\ AccountEquips' = r.st.AccountEquips
            /\ balances' = r.st.balances
            /\ UNCHANGED <<status, halted_in>>
    /\ UNCHANGED config
    /\ UNCHANGED nft

Mint == \E sender \in AccountId, id \in CollectibleId :
    Commit("mint", mint(stores, sender, id)) /\ UNCHANGED block_number

Burn == \E sender \in AccountId, id \in CollectibleId :
    Commit("burn", burn(stores, sender, id)) /\ UNCHANGED block_number

SetRentable == \E sender \in AccountId, id \in CollectibleId, p \in Prices,
                  mn \in MinimumPeriods, mx \in MaximumPeriods :
    Commit("set_rentable", set_rentable(stores, sender, id, p, mn, mx))
    /\ UNCHANGED block_number

SetUnrentable == \E sender \in AccountId, id \in CollectibleId :
    Commit("set_unrentable", set_unrentable(stores, sender, id)) /\ UNCHANGED block_number

Rent == \E sender \in AccountId, id \in CollectibleId, blocks \in Periods,
           recurring \in BOOLEAN :
    Commit("rent", rent(stores, block_number, sender, id, blocks, recurring))
    /\ UNCHANGED block_number

SetRecurring == \E sender \in AccountId, id \in CollectibleId, recurring \in BOOLEAN :
    Commit("set_recurring", set_recurring(stores, sender, id, recurring))
    /\ UNCHANGED block_number

ExtendRent == \E sender \in AccountId, id \in CollectibleId, blocks \in Periods,
                 checked \in BOOLEAN :
    Commit("extend_rent", extend_rent(stores, block_number, sender, id, blocks, checked))
    /\ UNCHANGED block_number

EquipCollectible == \E sender \in Callers, id \in CollectibleId :
    Commit("equip_collectible", equip_collectible(stores, sender, id))
    /\ UNCHANGED block_number

UnequipCollectible == \E sender \in Callers, id \in CollectibleId :
    Commit("unequip_collectible", unequip_collectible(stores, sender, id))
    /\ UNCHANGED block_number

(* The driver starts block n = block_number + 1 and calls on_initialize(n) *)
OnInitialize ==
    /\ block_number < MaxBlock
    /\ LET n == block_number + 1
           r == do_process_rental_periods(stores, n)
       IN  /\ Commit("on_initialize", r)
           /\ block_number' = IF r.result = "Ok" THEN n ELSE block_number

Next ==
    \/ Mint
    \/ Burn
    \/ SetRentable
    \/ SetUnrentable
    \/ Rent
    \/ SetRecurring
    \/ ExtendRent
    \/ EquipCollectible
    \/ UnequipCollectible
    \/ OnInitialize

Spec == Init /\ [][Next]_vars

(***************************************************************************)
(* The nft-on-rent pallet (pallets/nft-on-rent/src/lib.rs).  Its functions *)
(* carry the prefix nft_; st is a value of the variable nft.               *)
(***************************************************************************)

(* T::Currency::transfer(from, to, amount, KeepAlive): [ok, balances] *)
nft_currency_transfer(bal, from, to, amount) ==
    IF currency_transfer_ok(bal, from, amount)
    THEN [ok |-> TRUE,
          balances |-> [bal EXCEPT ![from] = @ - amount, ![to] = @ + amount]]
    ELSE [ok |-> FALSE, balances |-> bal]

(* _unequip_collectible_from_account on a value of AccountEquipsMap *)
nft_unequip_collectible_from_account(equips, account, collectible_id) ==
    [equips EXCEPT ![account] = retain_ne(@, collectible_id)]

(* The while loop of _append_pending_rental_to_available_block: try_append  *)
(* on the bucket of block; on failure the next candidate is                 *)
(* block_number() + 1, whatever block failed.  When that is the block that  *)
(* just failed the loop never exits: done = FALSE.                          *)
RECURSIVE nft_try_append_loop(_, _, _, _)
nft_try_append_loop(pending, now, block, entry) ==
    IF Len(pending[block]) < MaximumRentablesPerBlock
    THEN [done |-> TRUE, block |-> block,
          pending |-> [pending EXCEPT ![block] = Append(@, entry)]]
    ELSE IF now + 1 = block
         THEN [done |-> FALSE, block |-> block, pending |-> pending]
         ELSE nft_try_append_loop(pending, now, now + 1, entry)

(* _append_pending_rental_to_available_block *)
nft_append_pending_rental_to_available_block(pending, now, starting, additional, collectible_id, lessee) ==
    LET starting_block_number == IF is_some(starting) THEN unwrap(starting) ELSE now
    IN  nft_try_append_loop(pending, now, starting_block_number + additional,
                            <<collectible_id, lessee>>)

(* _remove_lessee_from_collectible *)
nft_remove_lessee_from_collectible(st, lessee, collectible) ==
    [st EXCEPT
        !.LesseeCollectiblesDoubleMap =
            [@ EXCEPT ![<<lessee, collectible.unique_id>>] = None],
        !.CollectibleMap = [@ EXCEPT ![collectible.unique_id] =
                               Some([collectible EXCEPT !.lessee = None])],
        !.AccountEquipsMap =
            nft_unequip_collectible_from_account(@, lessee, collectible.unique_id)]

(* mint + do_mint; unique_id is what _gen_unique_id() hashed to *)
nft_mint(st, sender, unique_id) ==
    LET collectible == [unique_id |-> unique_id,
                        price_per_block |-> None,
                        lessor |-> sender,
                        lessee |-> None,
                        rentable |-> FALSE,
                        minimum_rental_period |-> None,
                        maximum_rental_period |-> None]
    IN  IF is_some(st.CollectibleMap[unique_id]) THEN Err(st, "DuplicateCollectible")
        ELSE Ok([st EXCEPT !.CollectibleMap = [@ EXCEPT ![unique_id] = Some(collectible)]])

nft_set_rentable(st, sender, unique_id, price_per_block, minimum_rental_period, maximum_rental_period) ==
    LET fetched == st.CollectibleMap[unique_id]
        collectible == unwrap(fetched)
    IN  IF is_none(fetched) THEN Err(st, "NoCollectible")
        ELSE IF ~(collectible.lessor = sender) THEN Err(st, "NotLessor")
        ELSE Ok([st EXCEPT !.CollectibleMap = [@ EXCEPT ![unique_id] =
                    Some([collectible EXCEPT
                             !.price_per_block = Some(price_per_block),
                             !.rentable = TRUE,
                             !.minimum_rental_period = Some(minimum_rental_period),
                             !.maximum_rental_period = Some(maximum_rental_period)])]])

nft_do_rent_collectible(st, unique_id, lessee, rent_periodic_interval, recurring) ==
    LET collectible == unwrap(st.CollectibleMap[unique_id])
        lessor == collectible.lessor
        total_rent_price == unwrap(collectible.price_per_block) * rent_periodic_interval
        paid == nft_currency_transfer(st.balances, lessee, lessor, total_rent_price)
        appended == nft_append_pending_rental_to_available_block(
                        st.PendingRentals, st.block_number, None,
                        rent_periodic_interval, unique_id, lessee)
        rental_config == [rental_periodic_interval |-> rent_periodic_interval,
                          next_rent_block |-> appended.block,
                          recurring |-> recurring]
    IN  IF is_none(collectible.price_per_block) THEN Err(st, "Panic")
        ELSE IF ~paid.ok THEN Err(st, "Transfer")
        ELSE IF ~appended.done
        THEN ErrAfter(st, [st EXCEPT !.balances = paid.balances], "Hang")
        ELSE Ok([st EXCEPT
                    !.balances = paid.balances,
                    !.PendingRentals = appended.pending,
                    !.LesseeCollectiblesDoubleMap =
                        [@ EXCEPT ![<<lessee, unique_id>>] = Some(rental_config)],
                    !.CollectibleMap = [@ EXCEPT ![unique_id] =
                        Some([collectible EXCEPT !.lessee = Some(lessee)])],
                    !.AccountEquipsMap =
                        nft_unequip_collectible_from_account(@, lessor, unique_id)])

nft_rent(st, lessee, unique_id, blocks, recurring) ==
    LET fetched == st.CollectibleMap[unique_id]
        collectible == unwrap(fetched)
    IN  IF is_none(fetched) THEN Err(st, "NoCollectible")
        ELSE IF is_some(collectible.minimum_rental_period)
                /\ ~(blocks >= unwrap(collectible.minimum_rental_period))
        THEN Err(st, "RentalPeriodTooShort")
        ELSE IF is_some(collectible.maximum_rental_period)
                /\ ~(blocks <= unwrap(collectible.maximum_rental_period))
        THEN Err(st, "RentalPeriodTooLong")
        ELSE IF ~(collectible.lessor # lessee) THEN Err(st, "CannotRentOwnCollectible")
        ELSE IF ~is_none(collectible.lessee) THEN Err(st, "RentNotAvailable")
        ELSE nft_do_rent_collectible(st, unique_id, lessee, blocks, recurring)

nft_set_unrentable(st, sender, unique_id) ==
    LET fetched == st.CollectibleMap[unique_id]
        collectible == unwrap(fetched)
    IN  IF is_none(fetched) THEN Err(st, "NoCollectible")
        ELSE IF ~(collectible.lessor = sender) THEN Err(st, "NotLessor")
        ELSE Ok([st EXCEPT !.CollectibleMap = [@ EXCEPT ![unique_id] =
                    Some([collectible EXCEPT !.rentable = FALSE])]])

nft_set_recurring(st, sender, unique_id, recurring) ==
    LET fetched == st.CollectibleMap[unique_id]
        collectible == unwrap(fetched)
        lessee_rental == st.LesseeCollectiblesDoubleMap[<<sender, unique_id>>]
    IN  IF is_none(fetched) THEN Err(st, "NoCollectible")
        ELSE IF ~(collectible.lessee = Some(sender)) THEN Err(st, "NotLessor")
        ELSE IF ~is_some(lessee_rental) THEN Err(st, "NoCollectible")
        ELSE Ok([st EXCEPT !.LesseeCollectiblesDoubleMap =
                    [@ EXCEPT ![<<sender, unique_id>>] =
                        Some([unwrap(lessee_rental) EXCEPT !.recurring = recurring])]])

(* extend_rent.  The bucket of the old next_rent_block is read, cleared of  *)
(* the asset and stored; the pair is appended from next_rent_block + blocks *)
(* with the interval added; the agreement is stored with the block the      *)
(* insertion returned; then the list read from the old bucket is stored     *)
(* under that block.                                                        *)
nft_extend_rent(st, sender, unique_id, blocks) ==
    LET fetched == st.CollectibleMap[unique_id]
        collectible == unwrap(fetched)
        found == st.LesseeCollectiblesDoubleMap[<<sender, unique_id>>]
        lessee_rental == unwrap(found)
        lessee == unwrap(collectible.lessee)
        old_rent_block == lessee_rental.next_rent_block
        pending_rental == retain_id_ne(st.PendingRentals[old_rent_block], unique_id)
        retained == [st.PendingRentals EXCEPT ![old_rent_block] = pending_rental]
        appended == nft_append_pending_rental_to_available_block(
                        retained, st.block_number, Some(old_rent_block + blocks),
                        lessee_rental.rental_periodic_interval, unique_id, lessee)
        rental_config == [lessee_rental EXCEPT !.next_rent_block = appended.block]
    IN  IF is_none(fetched) THEN Err(st, "NoCollectible")
        ELSE IF ~(collectible.lessee = Some(sender)) THEN Err(st, "NotLessor")
        ELSE IF is_none(found) THEN Err(st, "NoCollectible")
        ELSE IF ~appended.done
        THEN ErrAfter(st, [st EXCEPT !.PendingRentals = retained], "Hang")
        ELSE Ok([st EXCEPT
                    !.PendingRentals =
                        [appended.pending EXCEPT ![appended.block] = pending_rental],
                    !.LesseeCollectiblesDoubleMap =
                        [@ EXCEPT ![<<lessee, unique_id>>] = Some(rental_config)]])

nft_equip_collectible(st, sender, unique_id) ==
    LET fetched == st.CollectibleMap[unique_id]
        collectible == unwrap(fetched)
        account == IF is_some(collectible.lessee) THEN unwrap(collectible.lessee)
                   ELSE collectible.lessor
    IN  IF is_none(fetched) THEN Err(st, "NoCollectible")
        ELSE IF is_some(collectible.lessee) /\ ~(unwrap(collectible.lessee) = sender)
        THEN Err(st, "NotAllowedWhileRented")
        ELSE IF is_none(collectible.lessee) /\ ~(collectible.lessor = sender)
        THEN Err(st, "NotLessor")
        ELSE IF ~(Len(st.AccountEquipsMap[account]) < MaximumOwned)
        THEN Err(st, "TooManyCollectiblesEquiped")
        ELSE Ok([st EXCEPT !.AccountEquipsMap =
                    [@ EXCEPT ![account] = Append(@, unique_id)]])

nft_unequip_collectible(st, sender, unique_id) ==
    IF is_none(st.CollectibleMap[unique_id]) THEN Err(st, "NoCollectible")
    ELSE Ok([st EXCEPT !.AccountEquipsMap =
                nft_unequip_collectible_from_account(@, sender, unique_id)])

(* One iteration of the for loop of process_rental_periods(n), on the run   *)
(* r = [result, st, events] the loop threads along.                         *)
nft_process_rental(r, n, rental) ==
    LET st == r.st
        collectible_id == rental[1]
        lessee == rental[2]
        found == st.LesseeCollectiblesDoubleMap[<<lessee, collectible_id>>]
        fetched == st.CollectibleMap[collectible_id]
        rental_config == unwrap(found)
        collectible == unwrap(fetched)
        total_rent_price ==
            unwrap(collectible.price_per_block) * rental_config.rental_periodic_interval
        paid == nft_currency_transfer(st.balances, lessee, collectible.lessor,
                                      total_rent_price)
        payed == [st EXCEPT !.balances = paid.balances]
        appended == nft_append_pending_rental_to_available_block(
                        st.PendingRentals, n, None,
                        rental_config.rental_periodic_interval, collectible_id, lessee)
    IN  IF r.result # "Ok" THEN r
        ELSE IF is_none(found) \/ is_none(fetched) THEN [r EXCEPT !.result = "Panic"]
        ELSE IF ~collectible.rentable \/ None = collectible.lessee \/ ~rental_config.recurring
        THEN [r EXCEPT !.st = nft_remove_lessee_from_collectible(st, lessee, collectible),
                       !.events = Append(@, <<"RentalPeriodEnded", collectible_id, lessee>>)]
        ELSE IF is_none(collectible.price_per_block) THEN [r EXCEPT !.result = "Panic"]
        ELSE IF ~paid.ok
        THEN [r EXCEPT !.st = nft_remove_lessee_from_collectible(st, lessee, collectible),
                       !.events = Append(@, <<"ErrorTransferingRent", collectible_id, lessee>>)]
        ELSE IF rental_config.recurring
        THEN IF ~appended.done THEN [r EXCEPT !.result = "Hang", !.st = payed]
             ELSE [r EXCEPT !.st = [payed EXCEPT !.PendingRentals = appended.pending],
                            !.events = Append(@, <<"RentPayed", collectible_id, lessee>>)]
        ELSE [r EXCEPT !.st = payed,
                       !.events = Append(@, <<"RentPayed", collectible_id, lessee>>)]

RECURSIVE nft_process_rentals(_, _, _)
nft_process_rentals(r, n, rentals) ==
    IF rentals = << >> THEN r
    ELSE nft_process_rentals(nft_process_rental(r, n, Head(rentals)), n, Tail(rentals))

(* on_initialize(n) + process_rental_periods(n): the loop over the bucket   *)
(* read at entry, then PendingRentals::remove(n); block n is then current.  *)
nft_process_rental_periods(st, n) ==
    LET r == nft_process_rentals([result |-> "Ok", st |-> st, events |-> << >>],
                                 n, st.PendingRentals[n])
        removed == [r.st EXCEPT !.PendingRentals[n] = << >>, !.block_number = n]
    IN  IF r.result # "Ok"
        THEN [result |-> r.result, st |-> st, written |-> r.st, events |-> r.events]
        ELSE [result |-> "Ok", st |-> removed, written |-> removed, events |-> r.events]

(* ---------------------- actions of nft-on-rent ------------------------- *)
(* The variables of the rent pallet, which nft-on-rent never touches. *)
rent_vars == <<Collectibles, LessorCollectibles, LesseeCollectibles,
               RentableCollectibles, PendingRentals, AccountEquips,
               balances, block_number, status, halted_in>>

(* The step of a call that returned r: a returned error leaves the runtime  *)
(* as it was, a panic or a hang stops it.                                   *)
NftCommit(r) ==
    /\ nft.status = "Ok"
    /\ nft' = IF r.result \in {"Panic", "Hang"} THEN [nft EXCEPT !.status = r.result]
              ELSE IF r.result # "Ok" THEN nft
              ELSE r.st
    /\ UNCHANGED config

(* The tick at which extend_rent starts its insertion stays on the horizon  *)
(* of the model.                                                            *)
NftWithinHorizon(sender, id, blocks) ==
    is_some(nft.LesseeCollectiblesDoubleMap[<<sender, id>>]) =>
        LET lessee_rental == unwrap(nft.LesseeCollectiblesDoubleMap[<<sender, id>>])
        IN  lessee_rental.next_rent_block + blocks
                + lessee_rental.rental_periodic_interval \in BlockNumber

NftMint == \E sender \in AccountId, id \in CollectibleId :
    NftCommit(nft_mint(nft, sender, id)) /\ UNCHANGED rent_vars

NftSetRentable == \E sender \in AccountId, id \in CollectibleId, p \in Prices :
    NftCommit(nft_set_rentable(nft, sender, id, p, 0, MaxTick)) /\ UNCHANGED rent_vars

NftRent == \E sender \in AccountId, id \in CollectibleId, blocks \in Periods,
              recurring \in BOOLEAN :
    NftCommit(nft_rent(nft, sender, id, blocks, recurring)) /\ UNCHANGED rent_vars

NftSetUnrentable == \E sender \in AccountId, id \in CollectibleId :
    NftCommit(nft_set_unrentable(nft, sender, id)) /\ UNCHANGED rent_vars

NftSetRecurring == \E sender \in AccountId, id \in CollectibleId, recurring \in BOOLEAN :
    NftCommit(nft_set_recurring(nft, sender, id, recurring)) /\ UNCHANGED rent_vars

NftExtendRent == \E sender \in AccountId, id \in CollectibleId, blocks \in Periods :
    /\ NftWithinHorizon(sender, id, blocks)
    /\ NftCommit(nft_extend_rent(nft, sender, id, blocks))
    /\ UNCHANGED rent_vars

NftEquipCollectible == \E sender \in AccountId, id \in CollectibleId :
    NftCommit(nft_equip_collectible(nft, sender, id)) /\ UNCHANGED rent_vars

NftUnequipCollectible == \E sender \in AccountId, id \in CollectibleId :
    NftCommit(nft_unequip_collectible(nft, sender, id)) /\ UNCHANGED rent_vars

(* The driver starts block n = block_number + 1 and calls on_initialize(n) *)
NftOnInitialize ==
    /\ nft.block_number < MaxBlock
    /\ NftCommit(nft_process_rental_periods(nft, nft.block_number + 1))
    /\ UNCHANGED rent_vars

NftNext ==
    \/ NftMint
    \/ NftSetRentable
    \/ NftRent
    \/ NftSetUnrentable
    \/ NftSetRecurring
    \/ NftExtendRent
    \/ NftEquipCollectible
    \/ NftUnequipCollectible
    \/ NftOnInitialize

NftSpec == Init /\ [][NftNext]_vars

(***************************************************************************)
(* Properties of the pending-rent index.                                   *)
(***************************************************************************)

(* The positions <<bucket, place>> at which the index holds the pair.       *)
Positions(pending, pair) ==
    {pos \in UNION {{b} \X DOMAIN pending[b] : b \in DOMAIN pending} :
        pending[pos[1]][pos[2]] = pair}

Pairs == CollectibleId \X AccountId

HasAgreement(collectible_id, lessee) ==
    is_some(LesseeCollectibles[<<lessee, collectible_id>>])

Agreement(collectible_id, lessee) ==
    unwrap(LesseeCollectibles[<<lessee, collectible_id>>])

Exists(collectible_id) == is_some(Collectibles[collectible_id])

Asset(collectible_id) == unwrap(Collectibles[collectible_id])

(* C1: between operations, a given (asset, renter) pair appears in at most  *)
(* one bucket of the pending-rent index, and at most once in that bucket.   *)
C1_PairPendingAtMostOnce ==
    \A pair \in Pairs : Cardinality(Positions(PendingRentals, pair)) <= 1

(* C1 is exercised: before any sweep, the only asset there is was rented    *)
(* for period 0 into bucket 1, and a paid extension has moved the pair's    *)
(* obligation to bucket 2, where it is pending once.                        *)
C1_Witness ==
    /\ block_number = 1
    /\ \E pair \in Pairs :
          /\ \A a \in CollectibleId : Exists(a) <=> a = pair[1]
          /\ HasAgreement(pair[1], pair[2])
          /\ Agreement(pair[1], pair[2]).rental_periodic_interval = 0
          /\ Agreement(pair[1], pair[2]).next_rent_block = 2
          /\ balances[pair[2]] = InitialBalance - 1
          /\ Positions(PendingRentals, pair) = {<<2, 1>>}

(* C2: an agreement for (asset, renter) exists exactly when exactly one     *)
(* bucket of the pending-rent index contains the pair, period-0 rentals     *)
(* included.                                                                *)
C2_AgreementIffOneObligation ==
    \A pair \in Pairs :
        HasAgreement(pair[1], pair[2]) <=>
            Cardinality(Positions(PendingRentals, pair)) = 1

(* C3: an asset's lessee field is Some(p) exactly when an agreement exists  *)
(* for (p, asset).                                                          *)
C3_LesseeIffAgreement ==
    \A pair \in Pairs :
        (Exists(pair[1]) /\ Asset(pair[1]).lessee = Some(pair[2])) <=>
            HasAgreement(pair[1], pair[2])

(* C3 is exercised in both directions: one asset is rented, and the only    *)
(* other asset has been rented, paid for and released again.                *)
C3_Witness ==
    \E a \in CollectibleId, b \in CollectibleId, p \in AccountId :
        /\ a # b
        /\ Exists(a) /\ Asset(a).lessee = Some(p) /\ HasAgreement(a, p)
        /\ Exists(b) /\ Asset(b).lessee = None
        /\ \A q \in AccountId : ~HasAgreement(b, q)
        /\ block_number >= 2

(* C4: between operations, every obligation in the pending-rent index sits  *)
(* in a bucket for a tick strictly after the last swept tick, so the sweep  *)
(* will still visit it.  The last swept tick is block_number.               *)
C4_ObligationsAfterLastSweep ==
    \A b \in DOMAIN PendingRentals :
        PendingRentals[b] # << >> => b > block_number

(* C5: the insertion procedure called by rent, extend_rent and the sweep    *)
(* terminates in every reachable state: no operation is caught in its       *)
(* retry loop.                                                              *)
C5_AppendTerminates == status # "Hang"

(* The index after one more pair is appended to one bucket that was under   *)
(* capacity, everything else left as it was.                                *)
StoredOnce(before, after, pair) ==
    \E b \in DOMAIN before :
        /\ Len(before[b]) < MaximumRentablesPerBlock
        /\ after = [before EXCEPT ![b] = Append(@, pair)]

(* C6: when an insertion made by rent, extend_rent or a sweep renewal finds *)
(* its target bucket at capacity, the operation still completes, with the   *)
(* new obligation stored in exactly one under-capacity bucket and all       *)
(* previously stored obligations intact.                                    *)
C6_OverflowInsertCompletes ==
    /\ \A sender \in AccountId, id \in CollectibleId, blocks \in Periods, flag \in BOOLEAN :
          LET r == rent(stores, block_number, sender, id, blocks, flag)
              e == extend_rent(stores, block_number, sender, id, blocks, flag)
              moved == [PendingRentals EXCEPT
                           ![Agreement(id, sender).next_rent_block] = retain_id_ne(@, id)]
          IN  /\ (/\ r.result \in {"Ok", "Hang"}
                  /\ Len(PendingRentals[block_number + blocks]) >= MaximumRentablesPerBlock)
                  => /\ r.result = "Ok"
                     /\ StoredOnce(PendingRentals, r.st.PendingRentals, <<id, sender>>)
              /\ (/\ e.result \in {"Ok", "Hang"}
                  /\ Len(moved[Agreement(id, sender).next_rent_block + blocks])
                         >= MaximumRentablesPerBlock)
                  => /\ e.result = "Ok"
                     /\ StoredOnce(moved, e.st.PendingRentals, <<id, sender>>)
    /\ block_number < MaxBlock =>
          do_process_rental_periods(stores, block_number + 1).result # "Hang"

(* C7: for every reachable state and every tick n, the sweep processes each *)
(* entry of bucket n with exactly one of the three outcomes (terminate,     *)
(* payment failure, pay and renew) and leaves bucket n empty.               *)
C7_SweepProcessesEveryEntry ==
    block_number < MaxBlock =>
        LET n == block_number + 1
            r == do_process_rental_periods(stores, n)
        IN  /\ r.result = "Ok"
            /\ Len(r.events) = Len(PendingRentals[n])
            /\ \A i \in DOMAIN r.events :
                  /\ r.events[i][1] \in {"RentalEnded", "ErrorTransferingRent", "RentPayed"}
                  /\ <<r.events[i][2], r.events[i][3]>> = PendingRentals[n][i]
            /\ r.st.PendingRentals[n] = << >>

(* C8: for every reachable state and every tick n, the sweep completes      *)
(* without failure: it neither panics nor fails to return.                  *)
C8_SweepNeverFails ==
    block_number < MaxBlock =>
        do_process_rental_periods(stores, block_number + 1).result \notin {"Panic", "Hang"}

(* C9: rent on an asset that is not rentable is rejected with an error and  *)
(* changes nothing.                                                         *)
C9_UnrentableRejected ==
    \A sender \in AccountId, id \in CollectibleId, blocks \in Periods, flag \in BOOLEAN :
        (Exists(id) /\ ~Asset(id).rentable) =>
            LET r == rent(stores, block_number, sender, id, blocks, flag)
            IN  r.result \notin {"Ok", "Panic", "Hang"} /\ r.st = stores

(* The payer cannot pay the amount: the balance is short of it, or paying   *)
(* it would take the balance under the existential deposit.                 *)
LackOfFunds(from, amount) ==
    \/ balances[from] < amount
    \/ amount > 0 /\ balances[from] - amount < ExistentialDeposit

TransferErrors == {"NotEnoughBalance", "KeepAlive"}

(* rent has passed its checks and reached the payment, which the renter     *)
(* cannot make.                                                             *)
RentCannotPay(sender, id, blocks) ==
    /\ Exists(id)
    /\ rent_checks(sender, Asset(id), blocks) = "Ok"
    /\ is_some(Asset(id).price_per_block)
    /\ LackOfFunds(sender, unwrap(Asset(id).price_per_block) * blocks)

(* extend_rent has passed its checks and reached the payment, which the     *)
(* renter cannot make.                                                      *)
ExtendCannotPay(sender, id, blocks) ==
    /\ Exists(id)
    /\ Asset(id).lessee = Some(sender)
    /\ HasAgreement(id, sender)
    /\ is_some(Asset(id).maximum_rental_period)
    /\ blocks + Agreement(id, sender).next_rent_block <=
          unwrap(Asset(id).maximum_rental_period)
    /\ is_some(Asset(id).price_per_block)
    /\ LackOfFunds(sender, unwrap(Asset(id).price_per_block) * blocks)

(* C10: when the payment transfer inside rent or extend_rent fails for lack *)
(* of funds, the operation returns an error and leaves the state exactly as *)
(* it was: nothing had been written when the failure was detected.          *)
C10_FailedTransferChangesNothing ==
    \A sender \in AccountId, id \in CollectibleId, blocks \in Periods, flag \in BOOLEAN :
        LET r == rent(stores, block_number, sender, id, blocks, flag)
            e == extend_rent(stores, block_number, sender, id, blocks, flag)
        IN  /\ RentCannotPay(sender, id, blocks) =>
                  r.result \in TransferErrors /\ r.st = stores /\ r.written = stores
            /\ ExtendCannotPay(sender, id, blocks) =>
                  e.result \in TransferErrors /\ e.st = stores /\ e.written = stores

(* C10 is exercised: an extend_rent reaches a payment that its sender, who  *)
(* has spent the balance on earlier rent, cannot make.                      *)
C10_Witness ==
    /\ ~Halted
    /\ \E sender \in AccountId, id \in CollectibleId, blocks \in Periods :
          /\ ExtendCannotPay(sender, id, blocks)
          /\ extend_rent(stores, block_number, sender, id, blocks, TRUE).result
                 \in TransferErrors

(* C11: a successful rent(asset, N, recurring) by caller c at tick T, with  *)
(* bucket T+N under capacity, moves exactly price_per_block * N from c to   *)
(* the lessor, sets the asset's lessee to Some(c) and leaves its other      *)
(* fields unchanged, stores (asset, c) in bucket T+N, and creates the       *)
(* agreement {interval N, next_rent_block T+N, recurring}.                  *)
C11_RentEffect ==
    \A c \in AccountId, id \in CollectibleId, N \in Periods, recurring \in BOOLEAN :
        LET r == rent(stores, block_number, c, id, N, recurring)
            T == block_number
            lessor == Asset(id).lessor
            price == unwrap(Asset(id).price_per_block) * N
        IN  (r.result = "Ok" /\ Len(PendingRentals[T + N]) < MaximumRentablesPerBlock) =>
                /\ r.st.balances = [balances EXCEPT ![c] = @ - price, ![lessor] = @ + price]
                /\ r.st.Collectibles =
                      [Collectibles EXCEPT ![id] = Some([Asset(id) EXCEPT !.lessee = Some(c)])]
                /\ r.st.PendingRentals =
                      [PendingRentals EXCEPT ![T + N] = Append(@, <<id, c>>)]
                /\ r.st.LesseeCollectibles =
                      [LesseeCollectibles EXCEPT ![<<c, id>>] =
                          Some([rental_periodic_interval |-> N,
                                next_rent_block |-> T + N,
                                recurring |-> recurring])]

(* C11 is exercised: before any sweep the only asset there is has been      *)
(* rented for one tick: the renter has paid the lessor the price of one     *)
(* tick and the pair is pending in bucket 2 under an agreement due at 2.    *)
C11_Witness ==
    /\ block_number = 1
    /\ \E pair \in Pairs :
          /\ \A a \in CollectibleId : Exists(a) <=> a = pair[1]
          /\ Asset(pair[1]).lessee = Some(pair[2])
          /\ HasAgreement(pair[1], pair[2])
          /\ Agreement(pair[1], pair[2]).rental_periodic_interval = 1
          /\ Agreement(pair[1], pair[2]).next_rent_block = 2
          /\ balances[pair[2]] = InitialBalance - unwrap(Asset(pair[1]).price_per_block)
          /\ balances[Asset(pair[1]).lessor] =
                InitialBalance + unwrap(Asset(pair[1]).price_per_block)
          /\ PendingRentals[2] = <<pair>>

(* The grounds on which rent rejects a call, read off the stored asset.     *)
TooShort(id, period) ==
    /\ Exists(id) /\ is_some(Asset(id).minimum_rental_period)
    /\ period < unwrap(Asset(id).minimum_rental_period)

TooLong(id, period) ==
    /\ Exists(id) /\ is_some(Asset(id).maximum_rental_period)
    /\ period > unwrap(Asset(id).maximum_rental_period)

OwnAsset(id, caller) == Exists(id) /\ Asset(id).lessor = caller

AlreadyRented(id) == Exists(id) /\ Asset(id).lessee # None

RentRejections ==
    {"NoCollectible", "RentalPeriodTooShort", "RentalPeriodTooLong",
     "CannotRentOwnCollectible", "RentNotAvailable"}

(* C12: rent is rejected without any state change with NoCollectible when   *)
(* the asset does not exist, RentalPeriodTooShort when the period is under  *)
(* the minimum, RentalPeriodTooLong when it is over the maximum,            *)
(* CannotRentOwnCollectible when the caller is the lessor and               *)
(* RentNotAvailable when the asset already has a lessee.  When several      *)
(* grounds hold at once the error is one of the five; when one holds alone  *)
(* the error is the one named for it.                                       *)
C12_RentRejections ==
    \A c \in AccountId, id \in CollectibleId, N \in Periods, recurring \in BOOLEAN :
        LET r == rent(stores, block_number, c, id, N, recurring)
            short == TooShort(id, N)
            long == TooLong(id, N)
            own == OwnAsset(id, c)
            rented == AlreadyRented(id)
        IN  /\ (~Exists(id) \/ short \/ long \/ own \/ rented) =>
                  r.result \in RentRejections /\ r.st = stores /\ r.written = stores
            /\ ~Exists(id) => r.result = "NoCollectible"
            /\ (short /\ ~long /\ ~own /\ ~rented) => r.result = "RentalPeriodTooShort"
            /\ (long /\ ~short /\ ~own /\ ~rented) => r.result = "RentalPeriodTooLong"
            /\ (own /\ ~short /\ ~long /\ ~rented) => r.result = "CannotRentOwnCollectible"
            /\ (rented /\ ~short /\ ~long /\ ~own) => r.result = "RentNotAvailable"

(* C12 is exercised: in one state a rent can be rejected for a period that  *)
(* is too short, for one that is too long, for the caller being the lessor  *)
(* and for the asset being rented already.                                  *)
C12_Witness ==
    /\ ~Halted
    /\ \A e \in RentRejections \ {"NoCollectible"} :
          \E c \in AccountId, id \in CollectibleId, N \in Periods :
              rent(stores, block_number, c, id, N, FALSE).result = e

(***************************************************************************)
(* Properties of the sweep, entry by entry.                                *)
(***************************************************************************)

(* The tick the next on_initialize sweeps and the bucket it reads.          *)
NextTick == block_number + 1

Due == PendingRentals[NextTick]

(* The run of the sweep of NextTick before and after its i-th entry.        *)
SweepBefore(i) ==
    process_rentals([result |-> "Ok", st |-> stores, events |-> << >>],
                    NextTick, SubSeq(Due, 1, i - 1))

SweepAfter(i) == process_rental(SweepBefore(i), NextTick, Due[i])

(* The sweep of NextTick reaches its i-th entry and gets through it.        *)
Processes(i) ==
    /\ block_number < MaxBlock
    /\ i \in DOMAIN Due
    /\ SweepBefore(i).result = "Ok"
    /\ SweepAfter(i).result = "Ok"

(* What the i-th entry's processing starts from. *)
EntryAsset(i) == unwrap(SweepBefore(i).st.Collectibles[Due[i][1]])

EntryAgreement(i) == unwrap(SweepBefore(i).st.LesseeCollectibles[<<Due[i][2], Due[i][1]>>])

EntryRent(i) ==
    unwrap(EntryAsset(i).price_per_block) * EntryAgreement(i).rental_periodic_interval

EntryEvent(i) == SweepAfter(i).events[i]

(* The i-th entry's processing has ended the rental: lessee cleared,        *)
(* agreement deleted, asset off the former lessee's equipped list, no       *)
(* balance moved and nothing added to the index.                            *)
EntryTerminated(i) ==
    LET id == Due[i][1]
        lessee == Due[i][2]
        before == SweepBefore(i).st
        after == SweepAfter(i).st
    IN  /\ after.balances = before.balances
        /\ unwrap(after.Collectibles[id]).lessee = None
        /\ after.LesseeCollectibles[<<lessee, id>>] = None
        /\ \A k \in DOMAIN after.AccountEquips[lessee] : after.AccountEquips[lessee][k] # id
        /\ after.PendingRentals = before.PendingRentals

(* Once the whole sweep of NextTick has returned, no bucket holds the pair. *)
NotRescheduled(pair) ==
    LET r == do_process_rental_periods(stores, NextTick)
    IN  r.result = "Ok" => Positions(r.st.PendingRentals, pair) = {}

(* C13: when the sweep of tick n processes an entry whose agreement is not  *)
(* recurring, the rental ends whatever the lessee's balance: no transfer is *)
(* made, the asset's lessee becomes None, the agreement is deleted, the     *)
(* asset leaves the former lessee's equipped list, RentalEnded is emitted   *)
(* and no new obligation is scheduled for the pair.                         *)
C13_NonRecurringEnds ==
    \A i \in DOMAIN Due :
        (Processes(i) /\ ~EntryAgreement(i).recurring) =>
            /\ EntryTerminated(i)
            /\ EntryEvent(i) = <<"RentalEnded", Due[i][1], Due[i][2]>>
            /\ NotRescheduled(Due[i])

(* C13 is exercised: a non-recurring rental of a rentable asset is due at   *)
(* the next tick, its lessee has equipped the asset and could pay the rent, *)
(* and the sweep ends it.                                                   *)
C13_Witness ==
    \E i \in DOMAIN Due :
        /\ Processes(i)
        /\ ~EntryAgreement(i).recurring
        /\ EntryAsset(i).rentable
        /\ ~LackOfFunds(Due[i][2], EntryRent(i))
        /\ \E k \in DOMAIN AccountEquips[Due[i][2]] : AccountEquips[Due[i][2]][k] = Due[i][1]
        /\ do_process_rental_periods(stores, NextTick).result = "Ok"
        /\ EntryEvent(i)[1] = "RentalEnded"

(* The i-th entry of the sweep of NextTick is a recurring rental of a       *)
(* rentable, still rented asset. *)
EntryRenewable(i) ==
    /\ Processes(i)
    /\ EntryAgreement(i).recurring
    /\ EntryAsset(i).rentable
    /\ EntryAsset(i).lessee # None

(* The lessee of the i-th entry can pay its rent when the entry's turn      *)
(* comes: the balance covers it and stays at or over the existential        *)
(* deposit.                                                                 *)
EntryCanPay(i) ==
    LET bal == SweepBefore(i).st.balances[Due[i][2]]
    IN  bal >= EntryRent(i) /\ (EntryRent(i) = 0 \/ bal - EntryRent(i) >= ExistentialDeposit)

(* The bucket the i-th entry's renewal aims at. *)
EntryTarget(i) == NextTick + EntryAgreement(i).rental_periodic_interval

(* C14: when the sweep of tick n processes a recurring rental of a rentable *)
(* and still rented asset whose lessee can pay, exactly price_per_block *   *)
(* interval moves from lessee to lessor, the lessee is retained, and, the   *)
(* bucket n + interval being under capacity, after the sweep that bucket    *)
(* holds a new obligation for the pair and the agreement's next_rent_block  *)
(* is n + interval, with interval and recurring unchanged.                  *)
C14_RecurringRenews ==
    \A i \in DOMAIN Due :
        LET id == Due[i][1]
            lessee == Due[i][2]
            before == SweepBefore(i).st
            after == SweepAfter(i).st
            r == do_process_rental_periods(stores, NextTick)
        IN  (/\ EntryRenewable(i)
             /\ EntryCanPay(i)
             /\ Len(before.PendingRentals[EntryTarget(i)]) < MaximumRentablesPerBlock
             /\ r.result = "Ok")
            => /\ after.balances =
                     [before.balances EXCEPT ![lessee] = @ - EntryRent(i),
                                             ![EntryAsset(i).lessor] = @ + EntryRent(i)]
               /\ unwrap(r.st.Collectibles[id]).lessee = Some(lessee)
               /\ Cardinality(Positions(r.st.PendingRentals, Due[i])) = 1
               /\ \E k \in DOMAIN r.st.PendingRentals[EntryTarget(i)] :
                     r.st.PendingRentals[EntryTarget(i)][k] = Due[i]
               /\ r.st.LesseeCollectibles[<<lessee, id>>] =
                     Some([EntryAgreement(i) EXCEPT !.next_rent_block = EntryTarget(i)])

(* The i-th entry's processing has ended the rental with the payment-failed *)
(* signal, and once the sweep has returned no bucket holds the pair.        *)
EndsUnpaid(i) ==
    /\ EntryTerminated(i)
    /\ EntryEvent(i) = <<"ErrorTransferingRent", Due[i][1], Due[i][2]>>
    /\ NotRescheduled(Due[i])

(* C15 as stated: when the sweep processes a recurring rental whose lessee  *)
(* cannot pay price_per_block * interval, the rental terminates: lessee     *)
(* None, agreement deleted, lessee unequipped, no obligation for the pair   *)
(* in any bucket, no balance changed, and ErrorTransferingRent is emitted   *)
(* for the entry while neither RentPayed nor RentalEnded is.                *)
C15_UnpayableRecurringEndsUnpaid ==
    \A i \in DOMAIN Due :
        (Processes(i) /\ EntryAgreement(i).recurring /\ ~EntryCanPay(i)) => EndsUnpaid(i)

(* C15, amended: the same for a recurring rental of an asset that is still  *)
(* rentable and rented when its entry is processed.                         *)
C15_UnpayableRenewableEndsUnpaid ==
    \A i \in DOMAIN Due :
        (EntryRenewable(i) /\ ~EntryCanPay(i)) => EndsUnpaid(i)

(* C15 is exercised: a recurring rental of a rentable asset is due at the   *)
(* next tick, the lessee has equipped the asset and cannot pay, and the     *)
(* sweep ends the rental with ErrorTransferingRent.                         *)
C15_Witness ==
    \E i \in DOMAIN Due :
        /\ EntryRenewable(i)
        /\ ~EntryCanPay(i)
        /\ \E k \in DOMAIN AccountEquips[Due[i][2]] : AccountEquips[Due[i][2]][k] = Due[i][1]
        /\ do_process_rental_periods(stores, NextTick).result = "Ok"
        /\ EntryEvent(i)[1] = "ErrorTransferingRent"

(* What the sweep of NextTick does with the entry of the pair (id, c) when  *)
(* it starts from the stores st: the run before the entry and after it.     *)
PairIndex(st, id, c) ==
    {i \in DOMAIN st.PendingRentals[NextTick] : st.PendingRentals[NextTick][i] = <<id, c>>}

PairBefore(st, i) ==
    process_rentals([result |-> "Ok", st |-> st, events |-> << >>],
                    NextTick, SubSeq(st.PendingRentals[NextTick], 1, i - 1))

PairAfter(st, i) == process_rental(PairBefore(st, i), NextTick, st.PendingRentals[NextTick][i])

(* The entry was ended without charge. *)
EndedWithoutCharge(st, i, id, c) ==
    LET before == PairBefore(st, i).st
        after == PairAfter(st, i).st
    IN  /\ PairAfter(st, i).events[i] = <<"RentalEnded", id, c>>
        /\ after.balances = before.balances
        /\ unwrap(after.Collectibles[id]).lessee = None
        /\ after.LesseeCollectibles[<<c, id>>] = None
        /\ after.PendingRentals = before.PendingRentals

(* The entry was charged and rescheduled. *)
ChargedAndRescheduled(st, i, id, c) ==
    LET before == PairBefore(st, i).st
        after == PairAfter(st, i).st
        asset == unwrap(before.Collectibles[id])
        agreement == unwrap(before.LesseeCollectibles[<<c, id>>])
        due == unwrap(asset.price_per_block) * agreement.rental_periodic_interval
    IN  /\ PairAfter(st, i).events[i] = <<"RentPayed", id, c>>
        /\ after.balances = [before.balances EXCEPT ![c] = @ - due, ![asset.lessor] = @ + due]
        /\ unwrap(after.Collectibles[id]).lessee = Some(c)
        /\ \E b \in DOMAIN before.PendingRentals :
              /\ after.PendingRentals =
                    [before.PendingRentals EXCEPT ![b] = Append(@, <<id, c>>)]
              /\ after.LesseeCollectibles[<<c, id>>] =
                    Some([agreement EXCEPT !.next_rent_block = b])

(* The lessee c of the rentable asset id can pay the rent due when the      *)
(* entry's turn comes.                                                      *)
PairPayable(st, i, id, c) ==
    LET before == PairBefore(st, i).st
        asset == unwrap(before.Collectibles[id])
        due == unwrap(asset.price_per_block) *
                 unwrap(before.LesseeCollectibles[<<c, id>>]).rental_periodic_interval
    IN  /\ asset.rentable
        /\ before.balances[c] >= due
        /\ (due = 0 \/ before.balances[c] - due >= ExistentialDeposit)

C17_ExtendMovesObligation ==
    \A c \in AccountId, id \in CollectibleId, extra \in Periods, checked \in BOOLEAN :
        LET e == extend_rent(stores, block_number, c, id, extra, checked)
            D == Agreement(id, c).next_rent_block
            others == SelectSeq(PendingRentals[D], LAMBDA rental : rental # <<id, c>>)
            removed == [PendingRentals EXCEPT ![D] = others]
        IN  (e.result = "Ok" /\ Len(PendingRentals[D + extra]) < MaximumRentablesPerBlock) =>
                /\ e.st.PendingRentals =
                      [removed EXCEPT ![D + extra] = Append(@, <<id, c>>)]
                /\ Cardinality(Positions(e.st.PendingRentals, <<id, c>>)) = 1
                /\ \A pos \in Positions(e.st.PendingRentals, <<id, c>>) : pos[1] = D + extra
                /\ e.st.LesseeCollectibles[<<c, id>>] =
                      Some([Agreement(id, c) EXCEPT !.next_rent_block = D + extra])

(* C17 is exercised: an extension by at least one tick succeeds for a pair  *)
(* that shares its bucket with another pair, into a bucket under capacity.  *)
C17_Witness ==
    /\ ~Halted
    /\ \E c \in AccountId, id \in CollectibleId, extra \in Periods :
          /\ extra >= 1
          /\ extend_rent(stores, block_number, c, id, extra, TRUE).result = "Ok"
          /\ Len(PendingRentals[Agreement(id, c).next_rent_block]) = 2
          /\ Len(PendingRentals[Agreement(id, c).next_rent_block + extra])
                < MaximumRentablesPerBlock

(* C18: extend_rent(extra) by the current lessee fails with                 *)
(* RentalPeriodTooLong and changes no state whenever next_rent_block +      *)
(* extra > maximum_rental_period, the maximum being compared as an absolute *)
(* tick, and is never rejected on that ground when next_rent_block + extra  *)
(* <= maximum_rental_period.                                                *)
C18_ExtendLimitIsAbsolute ==
    \A c \in AccountId, id \in CollectibleId, extra \in Periods, checked \in BOOLEAN :
        (Exists(id) /\ Asset(id).lessee = Some(c) /\ HasAgreement(id, c)) =>
            LET e == extend_rent(stores, block_number, c, id, extra, checked)
                new_due == Agreement(id, c).next_rent_block + extra
            IN  /\ is_some(Asset(id).maximum_rental_period)
                /\ new_due > unwrap(Asset(id).maximum_rental_period) =>
                      /\ e.result = "RentalPeriodTooLong"
                      /\ e.st = stores
                      /\ e.written = stores
                /\ new_due <= unwrap(Asset(id).maximum_rental_period) =>
                      e.result # "RentalPeriodTooLong"

(* C18 is exercised: a lessee whose rental is due at the maximum tick may   *)
(* extend it by nothing and is refused an extension by one tick, although   *)
(* one tick is well under the maximum.                                      *)
C18_Witness ==
    /\ ~Halted
    /\ \E c \in AccountId, id \in CollectibleId :
          /\ Exists(id) /\ Asset(id).lessee = Some(c) /\ HasAgreement(id, c)
          /\ 1 < unwrap(Asset(id).maximum_rental_period)
          /\ extend_rent(stores, block_number, c, id, 0, TRUE).result = "Ok"
          /\ extend_rent(stores, block_number, c, id, 1, TRUE).result = "RentalPeriodTooLong"

(* C19: set_unrentable by the lessor while the asset has a lessee leaves    *)
(* the lessee, the agreement and the pending obligation as they are: it     *)
(* clears the rentable flag and takes the asset off the rentable list.  The *)
(* next sweep that processes the agreement of an asset that is no longer    *)
(* rentable ends the rental (lessee cleared, agreement deleted, no new      *)
(* obligation) without any transfer, even when the agreement is recurring   *)
(* and the lessee could pay.                                                *)
C19_UnrentableEndsAtNextSweep ==
    /\ \A c \in AccountId, id \in CollectibleId :
          LET u == set_unrentable(stores, c, id)
          IN  (u.result = "Ok" /\ Asset(id).lessee # None) =>
                  u.st = [stores EXCEPT
                             !.Collectibles[id] = Some([Asset(id) EXCEPT !.rentable = FALSE]),
                             !.RentableCollectibles =
                                 SelectSeq(@, LAMBDA listed : listed # id)]
    /\ \A i \in DOMAIN Due :
          (Processes(i) /\ ~EntryAsset(i).rentable) =>
              /\ EntryTerminated(i)
              /\ EntryEvent(i)[1] = "RentalEnded"
              /\ NotRescheduled(Due[i])

(* C19 is exercised: a recurring rental whose lessee could pay is due at    *)
(* the next tick, its asset is rentable and its lessor can make it          *)
(* unrentable; after set_unrentable the sweep ends the rental.              *)
C19_Witness ==
    \E i \in DOMAIN Due :
        LET id == Due[i][1]
            lessee == Due[i][2]
            u == set_unrentable(stores, Asset(id).lessor, id)
        IN  /\ EntryRenewable(i)
            /\ EntryCanPay(i)
            /\ EntryRent(i) > 0
            /\ u.result = "Ok"
            /\ PairAfter(u.st, i).result = "Ok"
            /\ EndedWithoutCharge(u.st, i, id, lessee)

(* C20 as stated: in every reachable state, every asset with a lessee is    *)
(* rentable and has a price.                                                *)
C20_RentedIsRentableAndPriced ==
    \A id \in CollectibleId :
        (Exists(id) /\ Asset(id).lessee # None) =>
            Asset(id).rentable /\ Asset(id).price_per_block # None

(* C20, amended: in every reachable state, every asset with a lessee has a  *)
(* price; its rentable flag may be false.                                   *)
C20_RentedIsPriced ==
    \A id \in CollectibleId :
        (Exists(id) /\ Asset(id).lessee # None) => Asset(id).price_per_block # None

(* C20 is exercised: an asset has a lessee and a price, its agreement is    *)
(* still there, and its rentable flag is false.                             *)
C20_Witness ==
    /\ ~Halted
    /\ \E id \in CollectibleId, c \in AccountId :
          /\ Exists(id) /\ Asset(id).lessee = Some(c) /\ HasAgreement(id, c)
          /\ ~Asset(id).rentable
          /\ Asset(id).price_per_block # None

(***************************************************************************)
(* Contracts of the dispatchables.                                         *)
(***************************************************************************)

(* The ids a list holds. *)
Listed(list) == {list[k] : k \in DOMAIN list}

(* The list without every occurrence of id. *)
Without(list, id) == SelectSeq(list, LAMBDA listed : listed # id)

(* burn's three requirements: the asset exists, the caller is its lessor    *)
(* and it has no lessee.                                                    *)
BurnAllowed(caller, id) ==
    Exists(id) /\ Asset(id).lessor = caller /\ Asset(id).lessee = None

(* C21: burn succeeds if and only if the asset exists, the caller is its    *)
(* lessor and it has no lessee.  On success the asset is deleted and its id *)
(* is in neither the owned list nor the equipped list of the lessor, and no *)
(* other store changes.  Otherwise burn fails with NoCollectible (no such   *)
(* asset), NotLessor (caller is not the lessor) or NotAllowedWhileRented    *)
(* (the asset has a lessee), and neither writes nor leaves any change.      *)
C21_BurnContract ==
    \A caller \in AccountId, id \in CollectibleId :
        LET r == burn(stores, caller, id)
        IN  /\ (r.result = "Ok") <=> BurnAllowed(caller, id)
            /\ BurnAllowed(caller, id) =>
                   /\ r.st.Collectibles[id] = None
                   /\ id \notin Listed(r.st.LessorCollectibles[caller])
                   /\ id \notin Listed(r.st.AccountEquips[caller])
                   /\ r.st = [stores EXCEPT
                                 !.Collectibles[id] = None,
                                 !.LessorCollectibles[caller] = Without(@, id),
                                 !.AccountEquips[caller] = Without(@, id)]
            /\ ~Exists(id) => r.result = "NoCollectible"
            /\ (Exists(id) /\ Asset(id).lessor # caller) => r.result = "NotLessor"
            /\ (Exists(id) /\ Asset(id).lessor = caller /\ Asset(id).lessee # None) =>
                   r.result = "NotAllowedWhileRented"
            /\ ~BurnAllowed(caller, id) => r.st = stores /\ r.written = stores

(* C21 is exercised: a lessor can burn an asset it owns and has equipped,   *)
(* while another lessor is refused the burn of an asset that is rented.     *)
C21_Witness ==
    /\ ~Halted
    /\ \E caller \in AccountId, id \in CollectibleId :
          /\ burn(stores, caller, id).result = "Ok"
          /\ id \in Listed(LessorCollectibles[caller])
          /\ id \in Listed(AccountEquips[caller])
    /\ \E caller \in AccountId, id \in CollectibleId :
          burn(stores, caller, id).result = "NotAllowedWhileRented"

(* C22: in every reachable state RentableCollectibles holds exactly the ids *)
(* of the existing assets whose rentable flag is true, each exactly once.   *)
C22_RentableIndexExact ==
    /\ Listed(RentableCollectibles) =
           {id \in CollectibleId : Exists(id) /\ Asset(id).rentable}
    /\ \A j, k \in DOMAIN RentableCollectibles :
           RentableCollectibles[j] = RentableCollectibles[k] => j = k

(* set_rentable's four requirements, in the order the code tests them. *)
SetRentableAllowed(caller, id, min, max) ==
    /\ Exists(id)
    /\ Asset(id).lessor = caller
    /\ min <= max
    /\ Asset(id).lessee = None

(* The error of the first requirement of set_rentable that does not hold. *)
SetRentableRejection(caller, id, min, max) ==
    IF ~Exists(id) THEN "NoCollectible"
    ELSE IF Asset(id).lessor # caller THEN "NotLessor"
    ELSE IF ~(min <= max) THEN "MinimumMustBeLessThanMaximum"
    ELSE "NotAllowedWhileRented"

(* C23: set_rentable(price, min, max) succeeds only if the asset exists,    *)
(* the caller is its lessor, min <= max and the asset has no lessee.  On    *)
(* success the asset has price_per_block = Some(price), rentable = true and *)
(* the two period bounds, its id is in RentableCollectibles and not in the  *)
(* equipped list of the caller, and nothing else changes.  When a           *)
(* requirement does not hold the call fails with NoCollectible, NotLessor,  *)
(* MinimumMustBeLessThanMaximum or NotAllowedWhileRented and changes no     *)
(* state.                                                                   *)
C23_SetRentableContract ==
    \A caller \in AccountId, id \in CollectibleId, price \in Prices,
       min \in MinimumPeriods, max \in MaximumPeriods :
        LET r == set_rentable(stores, caller, id, price, min, max)
        IN  /\ r.result = "Ok" => SetRentableAllowed(caller, id, min, max)
            /\ r.result = "Ok" =>
                   /\ r.st.Collectibles[id] =
                          Some([Asset(id) EXCEPT !.price_per_block = Some(price),
                                                 !.rentable = TRUE,
                                                 !.minimum_rental_period = Some(min),
                                                 !.maximum_rental_period = Some(max)])
                   /\ id \in Listed(r.st.RentableCollectibles)
                   /\ id \notin Listed(r.st.AccountEquips[caller])
                   /\ r.st = [stores EXCEPT
                                 !.Collectibles[id] = r.st.Collectibles[id],
                                 !.RentableCollectibles = Append(@, id),
                                 !.AccountEquips[caller] = Without(@, id)]
            /\ ~SetRentableAllowed(caller, id, min, max) =>
                   /\ r.result = SetRentableRejection(caller, id, min, max)
                   /\ r.st = stores
                   /\ r.written = stores

(* C23 is exercised: a lessor that has its asset equipped can make it       *)
(* rentable, and the same call with min > max is refused.                   *)
C23_Witness ==
    /\ ~Halted
    /\ \E caller \in AccountId, id \in CollectibleId :
          /\ id \in Listed(AccountEquips[caller])
          /\ set_rentable(stores, caller, id, 1, 0, MaxTick).result = "Ok"
          /\ set_rentable(stores, caller, id, 1, 1, 0).result =
                 "MinimumMustBeLessThanMaximum"

(* The rightful holder of an asset: its lessee when it has one, otherwise   *)
(* its lessor provided the asset is not rentable.                           *)
RightfulHolder(id, account) ==
    \/ Asset(id).lessee = Some(account)
    \/ /\ Asset(id).lessor = account
       /\ Asset(id).lessee = None
       /\ ~Asset(id).rentable

(* C24: in every reachable state, an asset in AccountEquips[p] exists and   *)
(* p is its rightful holder: its lessee, or its lessor while the asset has  *)
(* no lessee and is not rentable.                                           *)
C24_EquippedByRightfulHolder ==
    \A account \in AccountId :
        \A id \in Listed(AccountEquips[account]) :
            Exists(id) /\ RightfulHolder(id, account)

(* C25: equip_collectible called by the lessor of an asset that has a       *)
(* lessee fails with NotAllowedWhileRented and changes no state, whether    *)
(* the asset is rentable or not.                                            *)
C25_LessorCannotEquipRented ==
    \A id \in CollectibleId :
        (Exists(id) /\ Asset(id).lessee # None) =>
            LET r == equip_collectible(stores, Asset(id).lessor, id)
            IN  r.result = "NotAllowedWhileRented" /\ r.st = stores

(* C26: equip_collectible fails and changes no state in three cases: the   *)
(* caller is the lessor and the asset is rentable (NotAllowedWhileRented);  *)
(* the asset is rented and the caller is neither its lessor nor its lessee  *)
(* (NotLessee); the asset is not rented and the caller is not its lessor    *)
(* (NoAccountFoundForCollectible).                                          *)
C26_EquipRejections ==
    \A caller \in Callers, id \in CollectibleId :
        Exists(id) =>
            LET r == equip_collectible(stores, caller, id)
                unchanged == r.st = stores /\ r.written = stores
            IN  /\ (Asset(id).lessor = caller /\ Asset(id).rentable) =>
                       r.result = "NotAllowedWhileRented" /\ unchanged
                /\ (Asset(id).lessee # None /\ Asset(id).lessor # caller
                        /\ Asset(id).lessee # Some(caller)) =>
                       r.result = "NotLessee" /\ unchanged
                /\ (Asset(id).lessee = None /\ Asset(id).lessor # caller) =>
                       r.result = "NoAccountFoundForCollectible" /\ unchanged

(* C26 is exercised: a rentable asset is rented, so that its lessor is      *)
(* refused with NotAllowedWhileRented and a third account with NotLessee    *)
(* while the lessee could equip it; another asset is not rented and an      *)
(* account that is not its lessor is refused with                           *)
(* NoAccountFoundForCollectible.                                            *)
C26_Witness ==
    /\ ~Halted
    /\ \E id \in CollectibleId :
          /\ Exists(id) /\ Asset(id).rentable /\ Asset(id).lessee # None
          /\ equip_collectible(stores, Asset(id).lessor, id).result = "NotAllowedWhileRented"
          /\ equip_collectible(stores, unwrap(Asset(id).lessee), id).result = "Ok"
          /\ \E caller \in Callers :
                equip_collectible(stores, caller, id).result = "NotLessee"
    /\ \E id \in CollectibleId, caller \in Callers :
          /\ Exists(id) /\ Asset(id).lessee = None
          /\ equip_collectible(stores, caller, id).result = "NoAccountFoundForCollectible"

(* The caller is the lessor or the current lessee of the asset. *)
LessorOrLessee(id, caller) ==
    Asset(id).lessor = caller \/ Asset(id).lessee = Some(caller)

(* C27: unequip_collectible called by the lessor or the current lessee of   *)
(* an asset succeeds whether or not the asset is equipped; afterwards the   *)
(* id is absent from the equipped list of the caller and every other store  *)
(* is as before; a second call succeeds too and leaves the state of the     *)
(* first.  A caller that is neither lessor nor lessee gets an error and     *)
(* nothing changes.                                                         *)
C27_UnequipIdempotent ==
    \A caller \in Callers, id \in CollectibleId :
        Exists(id) =>
            LET r == unequip_collectible(stores, caller, id)
                again == unequip_collectible(r.st, caller, id)
            IN  IF LessorOrLessee(id, caller)
                THEN /\ r.result = "Ok"
                     /\ id \notin Listed(r.st.AccountEquips[caller])
                     /\ r.st = [stores EXCEPT !.AccountEquips[caller] = Without(@, id)]
                     /\ again.result = "Ok"
                     /\ again.st = r.st
                ELSE /\ r.result \notin {"Ok", "Panic", "Hang"}
                     /\ r.st = stores
                     /\ r.written = stores

(* C27 is exercised: a lessee has the asset equipped and its lessor has     *)
(* not; both can call unequip_collectible, and a third account is refused.  *)
C27_Witness ==
    /\ ~Halted
    /\ \E id \in CollectibleId :
          /\ Exists(id) /\ Asset(id).lessee # None
          /\ id \in Listed(AccountEquips[unwrap(Asset(id).lessee)])
          /\ id \notin Listed(AccountEquips[Asset(id).lessor])
          /\ unequip_collectible(stores, unwrap(Asset(id).lessee), id).result = "Ok"
          /\ unequip_collectible(stores, Asset(id).lessor, id).result = "Ok"
          /\ \E caller \in Callers :
                unequip_collectible(stores, caller, id).result = "NotLessor"

(* A result of the not-found, authorization, precondition or capacity       *)
(* categories: an error that is not a failed transfer.                      *)
RejectedEarly(r) == r.result \notin ({"Ok", "Panic", "Hang"} \cup TransferErrors)

(* The call wrote nothing before it returned and leaves nothing changed. *)
WroteNothing(r) == r.written = stores /\ r.st = stores

(* The results of every call of the nine dispatchables in the current state *)
Calls ==
    {mint(stores, c, id) : c \in AccountId, id \in CollectibleId}
    \cup {burn(stores, c, id) : c \in AccountId, id \in CollectibleId}
    \cup {set_rentable(stores, c, id, p, mn, mx) :
             c \in AccountId, id \in CollectibleId, p \in Prices,
             mn \in MinimumPeriods, mx \in MaximumPeriods}
    \cup {set_unrentable(stores, c, id) : c \in AccountId, id \in CollectibleId}
    \cup {rent(stores, block_number, c, id, blocks, flag) :
             c \in AccountId, id \in CollectibleId, blocks \in Periods, flag \in BOOLEAN}
    \cup {set_recurring(stores, c, id, flag) :
             c \in AccountId, id \in CollectibleId, flag \in BOOLEAN}
    \cup {extend_rent(stores, block_number, c, id, blocks, flag) :
             c \in AccountId, id \in CollectibleId, blocks \in Periods, flag \in BOOLEAN}
    \cup {equip_collectible(stores, c, id) : c \in Callers, id \in CollectibleId}
    \cup {unequip_collectible(stores, c, id) : c \in Callers, id \in CollectibleId}

(* C28: whenever one of the nine dispatchables returns a not-found,         *)
(* authorization, precondition or capacity error, it has written no store   *)
(* when it detects the error and every store is unchanged; this includes    *)
(* TooManyCollectiblesOwned of mint and TooManyCollectibles of              *)
(* set_rentable.                                                            *)
C28_ErrorsBeforeAnyWrite ==
    \A r \in Calls : RejectedEarly(r) => WroteNothing(r)

(* C29: a successful mint by caller c creates an asset with lessor = c, no  *)
(* lessee, rentable = false, no price and no period bounds, and appends its *)
(* id to the owned list of c; nothing else changes.  When the generated id  *)
(* already exists mint fails with DuplicateCollectible: the existing asset  *)
(* and all owned lists, like every other store, are unchanged.              *)
C29_MintContract ==
    \A caller \in AccountId, id \in CollectibleId :
        LET r == mint(stores, caller, id)
            created == [collectible_id |-> id,
                        price_per_block |-> None,
                        lessor |-> caller,
                        lessee |-> None,
                        rentable |-> FALSE,
                        minimum_rental_period |-> None,
                        maximum_rental_period |-> None]
        IN  /\ r.result = "Ok" =>
                   /\ ~Exists(id)
                   /\ r.st.Collectibles[id] = Some(created)
                   /\ r.st.LessorCollectibles[caller] = Append(LessorCollectibles[caller], id)
                   /\ r.st = [stores EXCEPT
                                 !.Collectibles[id] = Some(created),
                                 !.LessorCollectibles[caller] = Append(@, id)]
            /\ Exists(id) =>
                   /\ r.result = "DuplicateCollectible"
                   /\ r.written = stores
                   /\ r.st = stores

(* C29 is exercised: an account that owns nothing can mint a new id, and    *)
(* its mint of an id that exists, owned by another account, is refused.     *)
C29_Witness ==
    /\ ~Halted
    /\ \E caller \in AccountId, new, old \in CollectibleId :
          /\ mint(stores, caller, new).result = "Ok"
          /\ Exists(old) /\ Asset(old).lessor # caller
          /\ mint(stores, caller, old).result = "DuplicateCollectible"

(***************************************************************************)
(* Properties of the nft-on-rent pallet (specification NftSpec).           *)
(***************************************************************************)

(* The tick the next sweep of nft-on-rent processes, and its bucket. *)
NftNextTick == nft.block_number + 1

NftDue == nft.PendingRentals[NftNextTick]

(* The run of the next sweep before and after it processes entry i. *)
NftSweepBefore(i) ==
    nft_process_rentals([result |-> "Ok", st |-> nft, events |-> << >>],
                        NftNextTick, SubSeq(NftDue, 1, i - 1))

NftSweepAfter(i) == nft_process_rental(NftSweepBefore(i), NftNextTick, NftDue[i])

(* The next sweep renews entry i: it reaches the entry, the payment         *)
(* succeeds and the pair is inserted again.                                 *)
NftRenews(i) ==
    /\ nft.status = "Ok"
    /\ nft.block_number < MaxBlock
    /\ NftSweepBefore(i).result = "Ok"
    /\ NftSweepAfter(i).result = "Ok"
    /\ NftSweepAfter(i).events[i][1] = "RentPayed"

(* The agreement of the pair of entry i in the stores st. *)
NftEntryAgreement(st, i) ==
    unwrap(st.LesseeCollectiblesDoubleMap[<<NftDue[i][2], NftDue[i][1]>>])

(* The tick of the bucket into which the renewal of entry i put the pair. *)
NftRenewalBucket(i) ==
    CHOOSE b \in BlockNumber :
        NftSweepAfter(i).st.PendingRentals[b] =
            Append(NftSweepBefore(i).st.PendingRentals[b], NftDue[i])

(* C30: in nft-on-rent, once the sweep of tick n has renewed a recurring    *)
(* rental (the payment succeeded), the next_rent_block of the stored        *)
(* agreement is the tick of the bucket that now holds the obligation of the *)
(* pair, which is n + interval when that bucket was under capacity; the     *)
(* interval and the recurring flag of the agreement are unchanged.          *)
C30_NftRenewalSetsNextRentBlock ==
    \A i \in DOMAIN NftDue :
        NftRenews(i) =>
            LET was == NftEntryAgreement(NftSweepBefore(i).st, i)
                is == NftEntryAgreement(NftSweepAfter(i).st, i)
                target == NftNextTick + was.rental_periodic_interval
            IN  /\ is.next_rent_block = NftRenewalBucket(i)
                /\ Len(NftSweepBefore(i).st.PendingRentals[target])
                       < MaximumRentablesPerBlock => NftRenewalBucket(i) = target
                /\ is.rental_periodic_interval = was.rental_periodic_interval
                /\ is.recurring = was.recurring

(***************************************************************************)
(* Further properties of the rent pallet (specification Spec).             *)
(***************************************************************************)

(* The ticks of the buckets that hold the pair. *)
BucketsOf(pending, pair) == {pos[1] : pos \in Positions(pending, pair)}

(* C31: in every state reachable between operations, the next_rent_block of *)
(* each agreement is the tick of the bucket that holds the obligation of    *)
(* its (asset, lessee) pair: the pair is in the bucket of next_rent_block   *)
(* and in no other.                                                         *)
C31_NextRentBlockIsBucket ==
    \A pair \in Pairs :
        HasAgreement(pair[1], pair[2]) =>
            BucketsOf(PendingRentals, pair) =
                {Agreement(pair[1], pair[2]).next_rent_block}

(* The bucket of tick b is at capacity. *)
Full(pending, b) == ~(Len(pending[b]) < MaximumRentablesPerBlock)

(* An insertion aimed at target at tick now falls back: the target bucket   *)
(* is at capacity and the bucket of now + 1 is not.                         *)
FallsBack(pending, now, target) ==
    /\ target \in BlockNumber
    /\ Full(pending, target)
    /\ ~Full(pending, now + 1)

(* The index after is the index before with the pair appended to bucket b. *)
StoredAt(before, after, b, pair) == after = [before EXCEPT ![b] = Append(@, pair)]

(* The index once extend_rent has taken the asset out of the bucket of the  *)
(* old next_rent_block.                                                     *)
Retained(id, lessee) ==
    [PendingRentals EXCEPT ![Agreement(id, lessee).next_rent_block] =
        SelectSeq(@, LAMBDA entry : entry[1] # id)]

(* The sweep of NextTick reaches entry i and gets as far as inserting its   *)
(* renewal: the agreement is recurring, the asset rentable and rented, and  *)
(* the rent is paid.                                                        *)
RenewalAttempted(i) ==
    /\ block_number < MaxBlock
    /\ SweepBefore(i).result = "Ok"
    /\ is_some(SweepBefore(i).st.LesseeCollectibles[<<Due[i][2], Due[i][1]>>])
    /\ is_some(SweepBefore(i).st.Collectibles[Due[i][1]])
    /\ EntryAgreement(i).recurring
    /\ EntryAsset(i).rentable
    /\ EntryAsset(i).lessee # None
    /\ EntryAsset(i).price_per_block # None
    /\ EntryCanPay(i)

Occurrences(pending, b, pair) ==
    Cardinality({k \in DOMAIN pending[b] : pending[b][k] = pair})

(* C33: in nft-on-rent, a successful extend_rent leaves the (asset, lessee) *)
(* pair of the caller in exactly one bucket of PendingRentals, once, and    *)
(* that bucket is the one of the updated next_rent_block of the agreement;  *)
(* every other pair is in every bucket as many times as before the call:    *)
(* no obligation is dropped and none is copied into another bucket.         *)
C33_NftExtendKeepsIndex ==
    \A c \in AccountId, id \in CollectibleId, blocks \in Periods :
        NftWithinHorizon(c, id, blocks) =>
            LET e == nft_extend_rent(nft, c, id, blocks)
                due == unwrap(e.st.LesseeCollectiblesDoubleMap[<<c, id>>]).next_rent_block
            IN  e.result = "Ok" =>
                    /\ Positions(e.st.PendingRentals, <<id, c>>) # {}
                    /\ \A b \in BlockNumber :
                           Occurrences(e.st.PendingRentals, b, <<id, c>>) =
                               IF b = due THEN 1 ELSE 0
                    /\ \A other \in Pairs \ {<<id, c>>}, b \in BlockNumber :
                           Occurrences(e.st.PendingRentals, b, other) =
                               Occurrences(nft.PendingRentals, b, other)

(***************************************************************************)
(* Frames, funds and lists of the rent pallet.                             *)
(***************************************************************************)

(* C34: set_recurring succeeds only for the asset's current lessee: on an   *)
(* unrented asset it returns NoLessee, for any other caller NotLessee, and  *)
(* both leave every store as it was.  On success the only change is the     *)
(* recurring flag of the caller's agreement: its interval and               *)
(* next_rent_block, the asset record, every PendingRentals bucket, the      *)
(* equip lists and the balances are unchanged.                              *)
C34_SetRecurringContract ==
    \A c \in Callers, id \in CollectibleId, flag \in BOOLEAN :
        LET r == set_recurring(stores, c, id, flag)
        IN  Exists(id) =>
              /\ r.result = "Ok" => Asset(id).lessee = Some(c)
              /\ is_none(Asset(id).lessee) =>
                     r.result = "NoLessee" /\ r.st = stores /\ r.written = stores
              /\ (is_some(Asset(id).lessee) /\ Asset(id).lessee # Some(c)) =>
                     r.result = "NotLessee" /\ r.st = stores /\ r.written = stores
              /\ r.result = "Ok" =>
                     /\ HasAgreement(id, c)
                     /\ r.st = [stores EXCEPT
                                   !.LesseeCollectibles[<<c, id>>] =
                                       Some([Agreement(id, c) EXCEPT !.recurring = flag])]
                     /\ unwrap(r.st.LesseeCollectibles[<<c, id>>]).rental_periodic_interval =
                            Agreement(id, c).rental_periodic_interval
                     /\ unwrap(r.st.LesseeCollectibles[<<c, id>>]).next_rent_block =
                            Agreement(id, c).next_rent_block
                     /\ r.st.Collectibles = Collectibles
                     /\ r.st.PendingRentals = PendingRentals
                     /\ r.st.AccountEquips = AccountEquips
                     /\ r.st.balances = balances

(* C34 is exercised: the lessee of a non-recurring rental can turn the flag *)
(* on, the lessor of the same asset is refused with NotLessee, and an       *)
(* unrented asset refuses everybody with NoLessee.                          *)
C34_Witness ==
    /\ ~Halted
    /\ \E c \in AccountId, id \in CollectibleId :
          /\ Exists(id)
          /\ Asset(id).lessee = Some(c)
          /\ HasAgreement(id, c)
          /\ ~Agreement(id, c).recurring
          /\ set_recurring(stores, c, id, TRUE).result = "Ok"
          /\ set_recurring(stores, c, id, TRUE).st # stores
          /\ set_recurring(stores, Asset(id).lessor, id, TRUE).result = "NotLessee"
    /\ \E c \in AccountId, id \in CollectibleId :
          /\ Exists(id)
          /\ is_none(Asset(id).lessee)
          /\ set_recurring(stores, c, id, TRUE).result = "NoLessee"

(* ------------- the rent pallet with prices beyond 32 bits --------------- *)
(* Balances are wider than u32, so a lessor may ask any of these prices:    *)
(* one, the smallest price whose double leaves u32, and the smallest price  *)
(* that is not a u32.                                                       *)
ChargePrices == {1, (U32Max + 1) \div 2, U32Max + 1}

(* The extensions asked for: zero, one or two blocks. *)
ChargeExtras == 0..(MaxPeriod + 1)

ChargeSetRentable == \E sender \in AccountId, id \in CollectibleId, p \in ChargePrices,
                        mn \in MinimumPeriods :
    Commit("set_rentable", set_rentable(stores, sender, id, p, mn, MaxTick))
    /\ UNCHANGED block_number

ChargeExtendRent == \E sender \in AccountId, id \in CollectibleId, blocks \in ChargeExtras,
                       checked \in BOOLEAN :
    Commit("extend_rent", extend_rent(stores, block_number, sender, id, blocks, checked))
    /\ UNCHANGED block_number

ChargeNext ==
    \/ Mint
    \/ ChargeSetRentable
    \/ Rent
    \/ ChargeExtendRent

ChargeSpec == Init /\ [][ChargeNext]_vars

(* What extend_rent has to charge: the extension times the price per block. *)
ExtendCharge(id, blocks) == blocks * unwrap(Asset(id).price_per_block)

(* balances after amount has moved from one account to another *)
Moved(from, to, amount) ==
    IF from = to THEN balances
    ELSE [balances EXCEPT ![from] = @ - amount, ![to] = @ + amount]

(* C35: a successful extend_rent(extra) charges the lessee exactly          *)
(* extra * price_per_block, whatever price a balance can hold and whatever  *)
(* extra a block number can hold: the charge is not cut or wrapped to 32    *)
(* bits, and the call does not panic when the price or the product is above *)
(* u32::MAX.                                                                *)
C35_ExtendChargeExact ==
    \A c \in AccountId, id \in CollectibleId, blocks \in ChargeExtras, checked \in BOOLEAN :
        (/\ Exists(id)
         /\ Asset(id).lessee = Some(c)
         /\ HasAgreement(id, c)
         /\ is_some(Asset(id).price_per_block)
         /\ is_some(Asset(id).maximum_rental_period)) =>
            LET e == extend_rent(stores, block_number, c, id, blocks, checked)
            IN  /\ e.result # "Panic"
                /\ e.result = "Ok" =>
                       e.st.balances = Moved(c, Asset(id).lessor, ExtendCharge(id, blocks))

(* The tick the agreement of the pair is due at, in the stores st. *)
DueTick(st, id, lessee) == unwrap(st.LesseeCollectibles[<<lessee, id>>]).next_rent_block

(* C36: a rental is never put up for a sweep earlier than the tick the      *)
(* lessee has paid up to, also when the bucket aimed at is full: rent at    *)
(* tick T with period N makes it due at T + N or later, extend_rent(E)      *)
(* makes it due E ticks after the tick it was due at or later, and a        *)
(* renewal made by the sweep of tick n makes it due at n plus the           *)
(* agreement's rental_periodic_interval or later.                           *)
C36_NeverDueBeforePaidUp ==
    /\ \A c \in AccountId, id \in CollectibleId, blocks \in Periods, flag \in BOOLEAN :
          LET r == rent(stores, block_number, c, id, blocks, flag)
          IN  r.result = "Ok" => DueTick(r.st, id, c) >= block_number + blocks
    /\ \A c \in AccountId, id \in CollectibleId, blocks \in Periods, flag \in BOOLEAN :
          LET e == extend_rent(stores, block_number, c, id, blocks, flag)
          IN  e.result = "Ok" =>
                  DueTick(e.st, id, c) >= Agreement(id, c).next_rent_block + blocks
    /\ \A i \in DOMAIN Due :
          (RenewalAttempted(i) /\ SweepAfter(i).result = "Ok") =>
              DueTick(SweepAfter(i).st, Due[i][1], Due[i][2]) >= EntryTarget(i)

(* The terms of an asset: who lets it, at what price, for how long. *)
Terms(asset) == <<asset.lessor, asset.price_per_block,
                  asset.minimum_rental_period, asset.maximum_rental_period>>

(* C37: no step changes the lessor of an asset that exists before and after *)
(* it, and no step changes the price or the period bounds of an asset that  *)
(* has a lessee; so the price a sweep charges for a renewal is the price    *)
(* the asset has had since the rental was made.                             *)
C37_TermsFixedWhileRented ==
    /\ [][\A id \in CollectibleId :
             (is_some(Collectibles[id]) /\ is_some(Collectibles'[id])) =>
                 /\ unwrap(Collectibles'[id]).lessor = unwrap(Collectibles[id]).lessor
                 /\ is_some(unwrap(Collectibles[id]).lessee) =>
                        Terms(unwrap(Collectibles'[id])) = Terms(unwrap(Collectibles[id]))]_vars
    /\ [](\A i \in DOMAIN Due :
             RenewalAttempted(i) =>
                 /\ Exists(Due[i][1])
                 /\ EntryAsset(i).price_per_block = Asset(Due[i][1]).price_per_block)

(* C37 is exercised: an asset is rented, its lessor asks for other period   *)
(* bounds and is refused, and the rental is about to be renewed by the      *)
(* sweep.                                                                   *)
C37_Witness ==
    /\ ~Halted
    /\ \E id \in CollectibleId, mn \in MinimumPeriods, mx \in MaximumPeriods :
          /\ Exists(id)
          /\ is_some(Asset(id).lessee)
          /\ <<Some(mn), Some(mx)>> #
                 <<Asset(id).minimum_rental_period, Asset(id).maximum_rental_period>>
          /\ set_rentable(stores, Asset(id).lessor, id, 1, mn, mx).result =
                 "NotAllowedWhileRented"
          /\ \E i \in DOMAIN Due : Due[i][1] = id /\ RenewalAttempted(i)

(* The sum of the balances of accounts 1..n. *)
RECURSIVE TotalUpTo(_, _)
TotalUpTo(bal, n) == IF n = 0 THEN 0 ELSE bal[n] + TotalUpTo(bal, n - 1)

TotalIssuance(bal) == TotalUpTo(bal, NumAccounts)

(* C38: the balances always add up to what was issued at genesis.  Funds    *)
(* move only from the renting caller or lessee of an asset to its lessor:   *)
(* price * period on a successful rent, price * extra on a successful       *)
(* extend_rent, price * interval for each renewal of a sweep.  A rejected   *)
(* call, any other call and a termination by the sweep move nothing.        *)
C38_FundsMoveOnlyAsRent ==
    /\ TotalIssuance(balances) = NumAccounts * InitialBalance
    /\ \A r \in Calls : TotalIssuance(r.st.balances) = TotalIssuance(balances)
    /\ \A r \in Calls : r.result # "Ok" => r.st.balances = balances
    /\ \A c \in AccountId, id \in CollectibleId :
          /\ mint(stores, c, id).st.balances = balances
          /\ burn(stores, c, id).st.balances = balances
          /\ set_unrentable(stores, c, id).st.balances = balances
          /\ \A p \in Prices \cup ChargePrices, mn \in MinimumPeriods, mx \in MaximumPeriods :
                set_rentable(stores, c, id, p, mn, mx).st.balances = balances
          /\ \A flag \in BOOLEAN : set_recurring(stores, c, id, flag).st.balances = balances
    /\ \A c \in Callers, id \in CollectibleId :
          /\ equip_collectible(stores, c, id).st.balances = balances
          /\ unequip_collectible(stores, c, id).st.balances = balances
    /\ \A c \in AccountId, id \in CollectibleId, blocks \in Periods, flag \in BOOLEAN :
          LET r == rent(stores, block_number, c, id, blocks, flag)
          IN  r.result = "Ok" =>
                  r.st.balances = Moved(c, Asset(id).lessor,
                                        unwrap(Asset(id).price_per_block) * blocks)
    /\ \A c \in AccountId, id \in CollectibleId, blocks \in ChargeExtras, checked \in BOOLEAN :
          LET e == extend_rent(stores, block_number, c, id, blocks, checked)
          IN  /\ e.result = "Ok" =>
                     e.st.balances = Moved(c, Asset(id).lessor, ExtendCharge(id, blocks))
              /\ e.result \notin {"Ok", "Panic", "Hang"} => e.st.balances = balances
    /\ \A i \in DOMAIN Due :
          (block_number < MaxBlock /\ SweepBefore(i).result = "Ok"
             /\ SweepAfter(i).result = "Ok") =>
              LET before == SweepBefore(i).st.balances
                  after == SweepAfter(i).st.balances
              IN  /\ TotalIssuance(after) = TotalIssuance(before)
                  /\ RenewalAttempted(i) =>
                         /\ after[Due[i][2]] = before[Due[i][2]]
                                - (IF EntryAsset(i).lessor = Due[i][2] THEN 0 ELSE EntryRent(i))
                         /\ after[EntryAsset(i).lessor] = before[EntryAsset(i).lessor]
                                + (IF EntryAsset(i).lessor = Due[i][2] THEN 0 ELSE EntryRent(i))
                  /\ ~RenewalAttempted(i) => after = before

(* The sweep of the next tick, run on the stores as they are. *)
Sweep == do_process_rental_periods(stores, NextTick)

(* list is extended from shorter by appending entries taken from added. *)
AppendedOnly(shorter, list, added) ==
    /\ Len(list) >= Len(shorter)
    /\ SubSeq(list, 1, Len(shorter)) = shorter
    /\ \A k \in (Len(shorter) + 1)..Len(list) : list[k] \in added

(* The accounts the sweep may charge or pay: the lessees in the bucket and  *)
(* the lessors of the assets in the bucket.                                 *)
DueParties ==
    {Due[i][2] : i \in DOMAIN Due}
    \cup {Asset(Due[i][1]).lessor : i \in {k \in DOMAIN Due : Exists(Due[k][1])}}

(* C39: the sweep of tick n changes only the assets, the agreements and the *)
(* equip lists of the pairs that were in bucket n when it started, the      *)
(* balances of their lessees and lessors, bucket n, and the buckets that    *)
(* receive the renewals, which only grow at the end by pairs of bucket n.   *)
(* The agreements of all other pairs, the entries already in other buckets, *)
(* RentableCollectibles and the owned lists are unchanged.                  *)
C39_SweepFrame ==
    (block_number < MaxBlock /\ Sweep.result = "Ok") =>
        /\ \A id \in CollectibleId :
              Sweep.st.Collectibles[id] # Collectibles[id] =>
                  \E i \in DOMAIN Due : Due[i][1] = id
        /\ \A c \in AccountId, id \in CollectibleId :
              Sweep.st.LesseeCollectibles[<<c, id>>] # LesseeCollectibles[<<c, id>>] =>
                  <<id, c>> \in Listed(Due)
        /\ \A c \in AccountId :
              /\ Sweep.st.AccountEquips[c] # AccountEquips[c] =>
                     \E i \in DOMAIN Due : Due[i][2] = c
              /\ \E gone \in SUBSET {Due[i][1] : i \in {k \in DOMAIN Due : Due[k][2] = c}} :
                     Sweep.st.AccountEquips[c] =
                         SelectSeq(AccountEquips[c], LAMBDA listed : listed \notin gone)
        /\ \A c \in AccountId :
              Sweep.st.balances[c] # balances[c] => c \in DueParties
        /\ \A b \in BlockNumber \ {NextTick} :
              AppendedOnly(PendingRentals[b], Sweep.st.PendingRentals[b], Listed(Due))
        /\ Sweep.st.RentableCollectibles = RentableCollectibles
        /\ Sweep.st.LessorCollectibles = LessorCollectibles

(* C39 is exercised: the sweep renews a rental into a bucket that already   *)
(* holds an obligation, while a pair that is not in the swept bucket has    *)
(* an agreement.                                                            *)
C39_Witness ==
    /\ ~Halted
    /\ block_number < MaxBlock
    /\ Sweep.result = "Ok"
    /\ \E i \in DOMAIN Due : RenewalAttempted(i)
    /\ \E b \in BlockNumber \ {NextTick} :
          /\ PendingRentals[b] # << >>
          /\ Sweep.st.PendingRentals[b] # PendingRentals[b]
    /\ \E c \in AccountId, id \in CollectibleId :
          /\ HasAgreement(id, c)
          /\ <<id, c>> \notin Listed(Due)

(* --------------- the rent pallet with room for two assets --------------- *)
(* The runtime chooses MaximumOwned; here it may also leave room for a      *)
(* second entry in each bounded list.                                       *)
EquipInit ==
    /\ MaximumOwned \in 1..(MaxOwned + 1)
    /\ MaximumRentablesPerBlock \in 1..MaxRentablesPerBlock
    /\ Collectibles = [c \in CollectibleId |-> None]
    /\ LessorCollectibles = [a \in AccountId |-> << >>]
    /\ LesseeCollectibles = [k \in AccountId \X CollectibleId |-> None]
    /\ RentableCollectibles = << >>
    /\ PendingRentals = [b \in BlockNumber |-> << >>]
    /\ AccountEquips = [a \in AccountId |-> << >>]
    /\ balances = [a \in AccountId |-> InitialBalance]
    /\ block_number = 1
    /\ status = "Ok"
    /\ halted_in = "none"
    /\ nft = NftGenesis

EquipNext ==
    \/ Mint
    \/ Burn
    \/ SetRentable
    \/ Rent
    \/ EquipCollectible
    \/ UnequipCollectible

EquipSpec == EquipInit /\ [][EquipNext]_vars

(* How many times the list holds the id. *)
Copies(list, id) == Cardinality({k \in DOMAIN list : list[k] = id})

(* C40: the equipped list of every account holds each asset at most once,   *)
(* whatever equip_collectible and unequip_collectible calls were made, and  *)
(* a successful equip_collectible of an asset that is already in the list   *)
(* of the account leaves the length of the list as it was.                  *)
C40_EquippedAtMostOnce ==
    /\ \A p \in AccountId, id \in CollectibleId : Copies(AccountEquips[p], id) <= 1
    /\ \A c \in AccountId, id \in CollectibleId :
          LET e == equip_collectible(stores, c, id)
          IN  (id \in Listed(AccountEquips[c]) /\ e.result = "Ok") =>
                  Len(e.st.AccountEquips[c]) = Len(AccountEquips[c])

====
